---- MODULE Spec2Model ----
(***************************************************************************)
(* A model of the kiwi tree-walking evaluator (KInterpreter): the call     *)
(* stack of frames, the frame flags, the handlers that push and pop        *)
(* frames, the loops, try/catch/finally, and the slice engine.             *)
(*                                                                         *)
(* The program text is not fixed: every step chooses the next statement    *)
(* the evaluator meets, so the reachable states are those of every program *)
(* whose nesting stays inside the bounds.  The C++ stack of handler        *)
(* activations is the variable ctl; a handler keeps the shared_ptr it      *)
(* took from callStack.top() in the field frame of its entry.              *)
(***************************************************************************)
EXTENDS Integers, Sequences, FiniteSets, TLC

\* ---- bounds ----
MaxDepth == 2
MaxNest == 2
MaxLen == 2
MaxIter == 2
MaxImports == 2

VARIABLES callStack, frames, ctl, status, err, ev, functions, classes, objects, lambdas, lambdaTable,
          packages, packageStack

vars == <<callStack, frames, ctl, status, err, ev, functions, classes, objects, lambdas, lambdaTable,
          packages, packageStack>>

\* ---- values (k_value): a tag and a payload ----
IntV(n) == [t |-> "int", v |-> n]
StrV(s) == [t |-> "str", v |-> s]
HashV(keys) == [t |-> "hash", v |-> keys]
ListV(elements) == [t |-> "list", v |-> elements]
ObjV(o) == [t |-> "object", v |-> o]
LambdaV(identifier) == [t |-> "lambda", v |-> identifier]
Unbound == [t |-> "unbound", v |-> 0]
NoVal == [t |-> "none", v |-> 0]

\* the names of functions and packages, and the keys of the function registry
FunctionNames == {"f"}
PackageNames == {"p"}
qualified(package, name) == package \o "::" \o name
FunctionKeys == FunctionNames \cup {qualified(p, n) : p \in PackageNames, n \in FunctionNames}

Names == {"global", "x", "v", "e", "m", "a", "f", "g"}
FrameIds == 1..(MaxDepth + 1)
NoObject == 0

\* struct CallStackFrame, default constructed
NoFrame == [variables |-> [n \in Names |-> Unbound], returnValue |-> IntV(0), objectContext |-> NoObject, flags |-> {}]

\* no event
NoEv == [kind |-> "none"]

NoErr == [type |-> "", msg |-> ""]

Top == callStack[Len(callStack)]

hasVariable(fr, f, n) == fr[f].variables[n] # Unbound

isFlagSet(fr, f, flag) == flag \in fr[f].flags

Referenced(f, cs, ct) == (\E i \in 1..Len(cs) : cs[i] = f) \/ (\E i \in 1..Len(ct) : ct[i].frame = f)

\* the smallest frame id no shared_ptr refers to (make_shared<CallStackFrame>)
FreeIds == {f \in FrameIds : ~Referenced(f, callStack, ctl)}

NewId == CHOOSE f \in FreeIds : \A g \in FreeIds : f <= g

\* the next state of stack, handlers and frame heap; a frame nothing refers to is freed
Commit(cs, fr, ct) ==
  /\ callStack' = cs
  /\ ctl' = ct
  /\ frames' = [f \in FrameIds |-> IF Referenced(f, cs, ct) THEN fr[f] ELSE NoFrame]

\* KInterpreter::createFrame
createFrame(fr, top, isMethodInvocation) ==
  LET frame == fr[top] IN
  [variables |-> IF ~isMethodInvocation THEN frame.variables ELSE [n \in Names |-> Unbound],
   returnValue |-> IntV(0),
   objectContext |-> IF "InObject" \in frame.flags THEN frame.objectContext ELSE NoObject,
   flags |-> (IF "InObject" \in frame.flags THEN {"InObject"} ELSE {}) \cup (frame.flags \cap {"InTry", "SubFrame"})]

\* a copy-back that gives the caller every name of the dropped frame
updateVariablesAll(variables, callerVariables) ==
  [n \in Names |-> IF variables[n] # Unbound THEN variables[n] ELSE callerVariables[n]]

\* InterpHelper::updateVariablesInCallerFrame
updateVariablesInCallerFrame(variables, callerVariables) ==
  [n \in Names |-> IF variables[n] # Unbound /\ callerVariables[n] # Unbound THEN variables[n] ELSE callerVariables[n]]

\* a teardown that sets the caller's Return flag whatever the flags are
setReturnFlag(callerFlags) == callerFlags \cup {"ReturnFlag"}

\* KInterpreter::dropFrame: if (callerFrame->isFlagSet(SubFrame))
\* callerFrame->setFlag(ReturnFlag)
propagateReturnFlag(callerFlags) ==
  IF "SubFrame" \in callerFlags THEN callerFlags \cup {"ReturnFlag"} ELSE callerFlags

\* KInterpreter::dropFrame: the set of outcomes.  With one frame on the stack
\* the pop empties it and callStack.top() is then undefined: the process
\* aborts or the access to the caller frame goes by unnoticed.
dropFrame(fr, cs) ==
  IF Len(cs) >= 2
  THEN LET top == cs[Len(cs)]
           caller == cs[Len(cs) - 1]
           callerFrame == [fr[caller] EXCEPT
              !.returnValue = fr[top].returnValue,
              !.flags = propagateReturnFlag(@),
              !.variables = updateVariablesInCallerFrame(fr[top].variables, @)]
       IN {[ok |-> TRUE, st |-> SubSeq(cs, 1, Len(cs) - 1),
            fr |-> [fr EXCEPT ![caller] = callerFrame, ![top] = [@ EXCEPT !.variables = [n \in Names |-> Unbound]]]]}
  ELSE IF Len(cs) = 1
  THEN {[ok |-> TRUE, st |-> <<>>, fr |-> fr], [ok |-> FALSE, st |-> <<>>, fr |-> fr]}
  ELSE {[ok |-> FALSE, st |-> cs, fr |-> fr]}

\* ---- handler activations ----
CallKinds == {"call", "fbody"}
LoopKinds == {"forlist", "forhash", "while", "repeat"}
ResultKinds == {"program", "call", "fbody", "forlist", "forhash", "while", "repeat", "each"}
\* the handlers that look at the frame after a statement, or whose body is known not to be empty
RanKinds == {"call", "fbody", "if", "forlist", "forhash", "catch", "finally"}

Entry(kind, frame) == [kind |-> kind, frame |-> frame, ran |-> FALSE, result |-> IntV(0)]

\* a statement of the body of the innermost handler has been interpreted with value val
StmtDone(ct, val) ==
  IF ct = <<>> THEN ct
  ELSE LET e == ct[Len(ct)] IN
       [ct EXCEPT ![Len(ct)] = [e EXCEPT !.ran = e.kind \in RanKinds, !.result = IF e.kind \in ResultKinds THEN val ELSE e.result]]

Pop(ct) == SubSeq(ct, 1, Len(ct) - 1)

\* index of the innermost function-body activation, 0 at top level
NearestCall(ct) ==
  LET S == {i \in 1..Len(ct) : ct[i].kind \in CallKinds} IN
  IF S = {} THEN 0 ELSE CHOOSE i \in S : \A j \in S : j <= i

\* history: a return has already been executed in the running function body
AfterReturn == NearestCall(ctl) > 0 /\ ctl[NearestCall(ctl)].firstRet # NoVal

\* history: a return has been executed in the body of a loop that is still running
LoopAfterReturn == \E i \in (NearestCall(ctl) + 1)..Len(ctl) : ctl[i].kind \in LoopKinds /\ ctl[i].ret

StmtEv == [kind |-> "stmt", afterReturn |-> AfterReturn, loopAfterReturn |-> LoopAfterReturn]

\* history bookkeeping of a return that took effect
MarkReturn(ct, val) ==
  [i \in 1..Len(ct) |->
     IF i = NearestCall(ct) /\ i > 0 /\ ct[i].firstRet = NoVal THEN [ct[i] EXCEPT !.firstRet = val]
     ELSE IF i > NearestCall(ct) /\ ct[i].kind \in LoopKinds THEN [ct[i] EXCEPT !.ret = TRUE]
     ELSE ct[i]]

\* the innermost handler stops interpreting its body: its check of the Return
\* flag, made after each statement, has fired
Blocked ==
  LET e == ctl[Len(ctl)] IN
  /\ e.ran
  /\ \/ e.kind \in {"call", "if", "forlist", "forhash"} /\ isFlagSet(frames, e.frame, "ReturnFlag")
     \/ e.kind = "fbody" /\ Len(callStack) >= 1 /\ isFlagSet(frames, Top, "ReturnFlag")

Running == status = "running" /\ ctl # <<>>

CanExec == Running /\ Len(callStack) >= 1 /\ ~Blocked

CanNest == CanExec /\ Len(ctl) <= MaxNest

\* ---- classes ----
ClassNames == {"A", "B", "C"}
MethodNames == {"new", "greet"}

\* the entry of a method name in KClass::methods: no entry, an entry holding a
\* null pointer (left behind by operator[]), or a function
NoMethod == [st |-> "absent"]
NullMethod == [st |-> "null"]

\* no entry in the map classes
NoClass == [declared |-> FALSE, baseClass |-> "", methods |-> [m \in MethodNames |-> NoMethod]]

\* ---- lambdas ----
\* the keys of the map lambdas: temporary identifiers (getTemporaryId) and the
\* names lambdas are assigned to
TempIds == {"t1", "t2"}
LambdaKeys == TempIds \cup {"f", "g"}

\* the keys of the map lambdaTable: those of lambdas, and parameter names
TableKeys == LambdaKeys \cup {"a"}

\* the entry of a key in the map lambdas: no entry, an entry holding a null
\* pointer (left behind by std::move or operator[]), or a lambda
NoLambda == [st |-> "absent"]
NullLambda == [st |-> "null"]

\* a KLambda: its parameters, and the lambda expression whose body it runs
\* (node, named by the temporary identifier the expression was given)
KLambda(parameters, node) ==
  [st |-> "lambda", parameters |-> parameters,
   defaultParameters |-> {parameters[i][1] : i \in {j \in 1..Len(parameters) : parameters[j][2] # IntV(0)}}, node |-> node]

\* KiwiBuiltins.is_builtin_method: the built-in names the programs call
Builtins == {"println"}

\* ---- Program ----
Init ==
  /\ callStack = <<>>
  /\ frames = [f \in FrameIds |-> NoFrame]
  /\ ctl = <<>>
  /\ status = "init"
  /\ err = NoErr
  /\ ev = NoEv
  /\ functions = [n \in FunctionKeys |-> [declared |-> FALSE, parameters |-> <<>>, defaultParameters |-> {}, isPrivate |-> FALSE, isStatic |-> FALSE]]
  /\ classes = [c \in ClassNames |-> NoClass]
  /\ objects = <<>>
  /\ lambdas = [n \in LambdaKeys |-> NoLambda]
  /\ lambdaTable = [n \in TableKeys |-> ""]
  /\ packages = {}
  /\ packageStack = <<>>

\* KInterpreter::visit(const ProgramNode*), non-script root: push the root frame
visitProgram ==
  /\ status = "init"
  /\ status' = "running"
  /\ Commit(<<1>>, [frames EXCEPT ![1] = [NoFrame EXCEPT !.variables = [NoFrame.variables EXCEPT !["global"] = HashV(<<>>)]]],
            <<Entry("program", 0)>>)
  /\ ev' = NoEv
  /\ UNCHANGED <<err, functions, packages, packageStack, lambdas, lambdaTable, classes, objects>>

\* the statement loop of visit(const ProgramNode*) has run out of statements
endProgram ==
  /\ Running
  /\ ctl[Len(ctl)].kind = "program"
  /\ status' = "done"
  /\ Commit(callStack, frames, <<>>)
  /\ ev' = NoEv
  /\ UNCHANGED <<err, functions, packages, packageStack, lambdas, lambdaTable, classes, objects>>

\* the process is gone (abort after an undefined access)
Crash ==
  /\ status' = "crashed"
  /\ Commit(<<>>, frames, <<>>)
  /\ ev' = NoEv
  /\ err' = NoErr

\* with no frame left, callStack.top() in the next statement handler is undefined
emptyStackAccess ==
  /\ Running
  /\ Len(callStack) = 0
  /\ Crash
  /\ UNCHANGED <<functions, packages, packageStack, lambdas, lambdaTable, classes, objects>>

\* ---- simple statements ----
AssignVals == {IntV(1)}
ReturnVals == {IntV(1), IntV(2)}

\* KInterpreter::visit(const AssignmentNode*), op "=", the value is no lambda and
\* the frame is in no object context
\* visit(const AssignmentNode*), the operator =, past the test of the name:
\* frame->variables[name] = value
bindVariable(name, value) ==
  /\ CanExec
  /\ Commit(callStack, [frames EXCEPT ![Top].variables[name] = value], StmtDone(ctl, value))
  /\ ev' = [kind |-> "stmt", afterReturn |-> AfterReturn, loopAfterReturn |-> LoopAfterReturn,
            name |-> name, raised |-> "", before |-> frames[Top].variables[name], after |-> value]
  /\ UNCHANGED <<status, err, functions, packages, packageStack, lambdas, lambdaTable, classes, objects>>

\* an assignment that binds whatever the name is
visitAssignmentAnyName(name, value) == bindVariable(name, value)

\* KInterpreter::visit(const AssignmentNode*), name = value, the value no
\* lambda and the frame in no object context
visitAssignment(name, value) ==
  IF name = "global"
  THEN /\ CanExec
       /\ status' = "raising"
       /\ err' = [type |-> "IllegalNameError", msg |-> name]
       /\ ev' = [kind |-> "assignFailed", name |-> name, raised |-> "IllegalNameError",
                 before |-> frames[Top].variables[name], after |-> frames[Top].variables[name]]
       /\ Commit(callStack, frames, ctl)
       /\ UNCHANGED <<functions, packages, packageStack, lambdas, lambdaTable, classes, objects>>
  ELSE bindVariable(name, value)

\* KInterpreter::visit(const ReturnNode*); cond: the condition is absent or truthy
visitReturn(returnValue, cond) ==
  /\ CanExec
  /\ IF cond
     THEN Commit(callStack, [frames EXCEPT ![Top].flags = @ \cup {"ReturnFlag"}, ![Top].returnValue = returnValue],
                 StmtDone(MarkReturn(ctl, returnValue), returnValue))
     ELSE Commit(callStack, frames, StmtDone(ctl, returnValue))
  /\ ev' = StmtEv
  /\ UNCHANGED <<status, err, functions, packages, packageStack, lambdas, lambdaTable, classes, objects>>

\* the error a throw statement builds from the value of its expression
ThrowKinds == {"string"}

thrownError(kind) ==
  IF kind = "hash" THEN [type |-> "MyError", msg |-> "oops"]
  ELSE IF kind = "string" THEN [type |-> "KiwiError", msg |-> "oops"]
  ELSE [type |-> "KiwiError", msg |-> ""]

\* KInterpreter::visit(const ThrowNode*)
visitThrow(kind, cond) ==
  /\ CanExec
  /\ IF cond
     THEN /\ status' = "raising"
          /\ err' = thrownError(kind)
          /\ Commit(callStack, frames, ctl)
     ELSE /\ Commit(callStack, frames, StmtDone(ctl, IntV(0)))
          /\ UNCHANGED <<status, err>>
  /\ ev' = StmtEv
  /\ UNCHANGED <<functions, packages, packageStack, lambdas, lambdaTable, classes, objects>>

\* ---- functions ----
ParamLists == {<<>>, <<<<"a", IntV(0)>>>>, <<<<"a", IntV(1)>>>>}

\* KInterpreter::createFunction
createFunction(parameters, isPrivate, isStatic) ==
  [declared |-> TRUE, parameters |-> parameters,
   defaultParameters |-> {parameters[i][1] : i \in {j \in 1..Len(parameters) : parameters[j][2] # IntV(0)}},
   isPrivate |-> isPrivate, isStatic |-> isStatic]

\* KInterpreter::visit(const FunctionDeclarationNode*), outside packages and classes
visitFunctionDeclaration(name, parameters) ==
  /\ CanExec
  /\ LET key == IF packageStack # <<>> THEN qualified(packageStack[Len(packageStack)], name) ELSE name IN
     functions' = [functions EXCEPT ![key] = createFunction(parameters, FALSE, FALSE)]
  /\ UNCHANGED <<lambdas, lambdaTable>>
  /\ Commit(callStack, frames, StmtDone(ctl, IntV(0)))
  /\ ev' = StmtEv
  /\ UNCHANGED <<status, err, classes, objects, packages, packageStack>>

\* an argument expression whose evaluation raises
ArgRaise == [t |-> "raise", v |-> 0]
ArgLists == {<<>>, <<IntV(1)>>, <<ArgRaise>>}

\* a parameter loop that binds 0 to a parameter without argument
RECURSIVE bindParametersZero(_, _, _, _, _)
bindParametersZero(func, name, arguments, i, variables) ==
  IF i > Len(func.parameters) THEN [ok |-> TRUE, variables |-> variables, err |-> NoErr, n |-> i - 1]
  ELSE bindParametersZero(func, name, arguments, i + 1,
         [variables EXCEPT ![func.parameters[i][1]] = IF i <= Len(arguments) THEN arguments[i] ELSE IntV(0)])

\* the parameter loop shared by visit(const FunctionCallNode*) and callFunction:
\* bind parameter i and the following ones into variables
RECURSIVE bindParameters(_, _, _, _, _)
bindParameters(func, name, arguments, i, variables) ==
  IF i > Len(func.parameters) THEN [ok |-> TRUE, variables |-> variables, err |-> NoErr, n |-> i - 1]
  ELSE LET param == func.parameters[i] IN
       IF i <= Len(arguments)
       THEN IF arguments[i].t = "raise"
            THEN [ok |-> FALSE, variables |-> variables, n |-> i - 1,
                  err |-> IF arguments[i].v = 0 THEN thrownError("string")
                          ELSE [type |-> "FunctionUndefinedError", msg |-> arguments[i].name]]
            ELSE IF arguments[i].t = "lambda"
            THEN bindParameters(func, name, arguments, i + 1, variables)
            ELSE bindParameters(func, name, arguments, i + 1, [variables EXCEPT ![param[1]] = arguments[i]])
       ELSE IF param[1] \in func.defaultParameters
            THEN bindParameters(func, name, arguments, i + 1, [variables EXCEPT ![param[1]] = param[2]])
            ELSE [ok |-> FALSE, variables |-> variables, err |-> [type |-> "ParameterCountMismatchError", msg |-> name],
                  n |-> i - 1]

\* the parameter loop, its writes to lambdaTable: each of the first n
\* parameters whose argument is a lambda is mapped to the lambda's identifier
bindLambdaTable(func, arguments, n) ==
  [k \in TableKeys |->
     LET S == {i \in 1..n : i <= Len(arguments) /\ arguments[i].t = "lambda" /\ func.parameters[i][1] = k} IN
     IF S = {} THEN lambdaTable[k] ELSE arguments[CHOOSE i \in S : \A j \in S : j <= i].v]

\* the registries getCallable searches, in the order of the search: is the
\* name in functions, in lambdas, a built-in, in lambdaTable, a method of the
\* class of the object context of the top frame
Found(name) ==
  <<name \in DOMAIN functions /\ functions[name].declared,
    name \in LambdaKeys /\ lambdas[name] # NoLambda,
    name \in Builtins,
    name \in TableKeys /\ lambdaTable[name] # "",
    /\ isFlagSet(frames, Top, "InObject")
    /\ name \in MethodNames
    /\ classes[objects[frames[Top].objectContext].className].methods[name] # NoMethod>>

\* KInterpreter::getCallable with the lambda registry asked before the functions
getCallableLambdaFirst(name) ==
  IF Found(name)[2] THEN "Lambda"
  ELSE IF Found(name)[1] THEN "Function"
  ELSE IF Found(name)[3] THEN "Builtin"
  ELSE IF Found(name)[4] THEN "Lambda"
  ELSE IF Found(name)[5] THEN "Method"
  ELSE "Undefined"

\* KInterpreter::getCallable
getCallable(name) ==
  IF name \in DOMAIN functions /\ functions[name].declared THEN "Function"
  ELSE IF name \in LambdaKeys /\ lambdas[name] # NoLambda THEN "Lambda"
  ELSE IF name \in Builtins THEN "Builtin"
  ELSE IF name \in TableKeys /\ lambdaTable[name] # "" THEN "Lambda"
  ELSE IF /\ isFlagSet(frames, Top, "InObject")
          /\ name \in MethodNames
          /\ classes[objects[frames[Top].objectContext].className].methods[name] # NoMethod
  THEN "Method"
  ELSE "Undefined"

CallEntry(f) == [kind |-> "call", frame |-> f, ran |-> FALSE, result |-> IntV(0), firstRet |-> NoVal,
                 depthBefore |-> Len(callStack), topBefore |-> Top]

\* the statement event of a call whose parameters have been bound
CallEv(name, arguments) ==
  [kind |-> "stmt", afterReturn |-> AfterReturn, loopAfterReturn |-> LoopAfterReturn,
   call |-> name, arguments |-> arguments, name |-> name, callable |-> "Function", found |-> Found(name)]

\* the statement event of a call that was resolved otherwise, or not at all
ResolveEv(name, callable) ==
  [kind |-> "stmt", afterReturn |-> AfterReturn, loopAfterReturn |-> LoopAfterReturn,
   name |-> name, callable |-> callable, found |-> Found(name)]

\* KInterpreter::visit(const FunctionCallNode*) up to the first body statement
visitFunctionCall(name, arguments) ==
  /\ CanNest
  /\ getCallable(name) \in {"Function", "Undefined"}
  /\ lambdaTable' = IF getCallable(name) = "Undefined" THEN lambdaTable
                    ELSE bindLambdaTable(functions[name], arguments,
                                         bindParameters(functions[name], name, arguments, 1, frames[Top].variables).n)
  /\ IF getCallable(name) = "Undefined"
     THEN /\ status' = "raising"
          /\ err' = [type |-> "FunctionUndefinedError", msg |-> name]
          /\ Commit(callStack, frames, ctl)
          /\ ev' = ResolveEv(name, "Undefined")
     ELSE LET functionFrame == createFrame(frames, Top, FALSE)
              b == bindParameters(functions[name], name, arguments, 1, functionFrame.variables)
          IN IF b.ok
             THEN /\ Len(callStack) < MaxDepth
                  /\ Commit(Append(callStack, NewId),
                            [frames EXCEPT ![NewId] = [functionFrame EXCEPT !.variables = b.variables]],
                            Append(ctl, CallEntry(NewId)))
                  /\ ev' = CallEv(name, arguments)
                  /\ UNCHANGED <<status, err>>
             ELSE \* the catch clause drops a frame although none was pushed
                  \E o \in dropFrame(frames, callStack) :
                    IF o.ok
                    THEN /\ status' = "raising"
                         /\ err' = b.err
                         /\ Commit(o.st, o.fr, ctl)
                         /\ ev' = [kind |-> "callFailed", depthBefore |-> Len(callStack), depthAfter |-> Len(o.st),
                                   topBefore |-> Top, topAfter |-> IF o.st = <<>> THEN 0 ELSE o.st[Len(o.st)],
                                   arguments |-> arguments]
                    ELSE Crash
  /\ UNCHANGED <<functions, packages, packageStack, lambdas, classes, objects>>

\* visit(const FunctionCallNode*): the body loop ends (no statement left, or the
\* Return flag of functionFrame is set), then dropFrame
endCall ==
  /\ Running
  /\ ctl[Len(ctl)].kind = "call"
  /\ LET e == ctl[Len(ctl)]
         result == IF e.ran /\ isFlagSet(frames, e.frame, "ReturnFlag") THEN frames[e.frame].returnValue ELSE e.result
     IN \E o \in dropFrame(frames, callStack) :
          IF o.ok
          THEN /\ Commit(o.st, o.fr, StmtDone(Pop(ctl), result))
               /\ ev' = [kind |-> "callEnd", result |-> result, firstRet |-> e.firstRet, last |-> e.result]
               /\ UNCHANGED <<status, err>>
          ELSE Crash
  /\ UNCHANGED <<functions, packages, packageStack, lambdas, lambdaTable, classes, objects>>

\* ---- a failure travels up the handler activations ----
Raising == status = "raising" /\ ctl # <<>>

\* nobody catches: interpret() is left by the exception
unwindProgram ==
  /\ Raising
  /\ ctl[Len(ctl)].kind = "program"
  /\ status' = "uncaught"
  /\ Commit(callStack, frames, <<>>)
  /\ ev' = NoEv
  /\ UNCHANGED <<err, functions, packages, packageStack, lambdas, lambdaTable, classes, objects>>

\* the catch clause of visit(const FunctionCallNode*): dropFrame, rethrow
unwindCall ==
  /\ Raising
  /\ ctl[Len(ctl)].kind = "call"
  /\ LET e == ctl[Len(ctl)] IN
     \E o \in dropFrame(frames, callStack) :
       IF o.ok
       THEN /\ Commit(o.st, o.fr, Pop(ctl))
            /\ ev' = [kind |-> "callFailed", depthBefore |-> e.depthBefore, depthAfter |-> Len(o.st),
                      topBefore |-> e.topBefore, topAfter |-> IF o.st = <<>> THEN 0 ELSE o.st[Len(o.st)]]
            /\ UNCHANGED <<status, err>>
       ELSE Crash
  /\ UNCHANGED <<functions, packages, packageStack, lambdas, lambdaTable, classes, objects>>

\* ---- try / catch / finally ----
\* the activation of visit(const TryNode*); kind is the body it is in: "try", "catch" or "finally"
TryEntry(hasCatch, hasFinally, bindType, bindMsg) ==
  [kind |-> "try", frame |-> 0, ran |-> FALSE, result |-> IntV(0),
   hasCatch |-> hasCatch, hasFinally |-> hasFinally, bindType |-> bindType, bindMsg |-> bindMsg,
   fin |-> 0, caught |-> FALSE]

\* KInterpreter::visit(const TryNode*): enter the try body
visitTry(hasCatch, hasFinally, bindType, bindMsg) ==
  /\ CanNest
  /\ hasCatch \/ ~(bindType \/ bindMsg)
  /\ Commit(callStack, frames, Append(ctl, TryEntry(hasCatch, hasFinally, bindType, bindMsg)))
  /\ ev' = StmtEv
  /\ UNCHANGED <<status, err, functions, packages, packageStack, lambdas, lambdaTable, classes, objects>>

TryExitEv(e, how, unbound) == [kind |-> "tryExit", how |-> how, hasFinally |-> e.hasFinally, fin |-> e.fin, unbound |-> unbound]

\* visit(const TryNode*): the names of the catch clause are bound in the frame
catchBind(variables, bindType, bindMsg, error) ==
  [n \in Names |-> IF n = "e" /\ bindType THEN StrV(error.type)
                   ELSE IF n = "m" /\ bindMsg THEN StrV(error.msg)
                   ELSE variables[n]]

\* a catch clause that erases the error-type name and leaves the message name behind
catchEraseTypeOnly(variables, bindType, bindMsg) ==
  [n \in Names |-> IF n = "e" /\ bindType THEN Unbound ELSE variables[n]]

\* visit(const TryNode*): the names of the catch clause are erased from the frame
catchErase(variables, bindType, bindMsg) ==
  [n \in Names |-> IF (n = "e" /\ bindType) \/ (n = "m" /\ bindMsg) THEN Unbound ELSE variables[n]]

\* visit(const TryNode*): go on to the finally body
toFinally(e) == [e EXCEPT !.kind = "finally", !.ran = FALSE, !.fin = e.fin + 1, !.frame = 0]

\* visit(const TryNode*): the try body has run out of statements
endTryBody ==
  /\ Running
  /\ ctl[Len(ctl)].kind = "try"
  /\ LET e == ctl[Len(ctl)] IN
     IF e.hasFinally
     THEN /\ Commit(callStack, frames, [ctl EXCEPT ![Len(ctl)] = toFinally(e)])
          /\ ev' = NoEv
     ELSE /\ Commit(callStack, frames, StmtDone(Pop(ctl), IntV(0)))
          /\ ev' = TryExitEv(e, "normal", TRUE)
  /\ UNCHANGED <<status, err, functions, packages, packageStack, lambdas, lambdaTable, classes, objects>>

\* visit(const TryNode*): the catch body (not empty) has run out of statements
endCatchBody ==
  /\ Running
  /\ ctl[Len(ctl)].kind = "catch" /\ ctl[Len(ctl)].ran
  /\ LET e == ctl[Len(ctl)]
         fr == [frames EXCEPT ![e.frame].variables = catchErase(@, e.bindType, e.bindMsg)]
         unbound == (e.bindType => ~hasVariable(fr, e.frame, "e")) /\ (e.bindMsg => ~hasVariable(fr, e.frame, "m"))
     IN IF e.hasFinally
        THEN /\ Commit(callStack, fr, [ctl EXCEPT ![Len(ctl)] = toFinally(e)])
             /\ ev' = [kind |-> "catchDone", unbound |-> unbound]
        ELSE /\ Commit(callStack, fr, StmtDone(Pop(ctl), IntV(0)))
             /\ ev' = TryExitEv(e, "caught", unbound)
  /\ UNCHANGED <<status, err, functions, packages, packageStack, lambdas, lambdaTable, classes, objects>>

\* visit(const TryNode*): the finally body (not empty) has run out of statements
endFinallyBody ==
  /\ Running
  /\ ctl[Len(ctl)].kind = "finally" /\ ctl[Len(ctl)].ran
  /\ LET e == ctl[Len(ctl)] IN
     /\ Commit(callStack, frames, StmtDone(Pop(ctl), IntV(0)))
     /\ ev' = TryExitEv(e, IF e.caught THEN "caught" ELSE "normal", TRUE)
  /\ UNCHANGED <<status, err, functions, packages, packageStack, lambdas, lambdaTable, classes, objects>>

\* a try statement that lets the error of its body pass to the handler around it
unwindTryBodyRethrow ==
  /\ Raising
  /\ ctl[Len(ctl)].kind = "try"
  /\ Commit(callStack, frames, Pop(ctl))
  /\ ev' = NoEv
  /\ UNCHANGED <<status, err, functions, packages, packageStack, lambdas, lambdaTable, classes, objects>>

\* visit(const TryNode*): catch (const KiwiError&) while the try body runs
unwindTryBody ==
  /\ Raising
  /\ ctl[Len(ctl)].kind = "try"
  /\ LET e == ctl[Len(ctl)] IN
     IF e.hasCatch
     THEN IF Len(callStack) = 0
          THEN Crash
          ELSE /\ status' = "running"
               /\ err' = NoErr
               /\ Commit(callStack, [frames EXCEPT ![Top].variables = catchBind(@, e.bindType, e.bindMsg, err)],
                         [ctl EXCEPT ![Len(ctl)] = [e EXCEPT !.kind = "catch", !.ran = FALSE, !.frame = Top, !.caught = TRUE]])
               /\ ev' = [kind |-> "caught", error |-> err]
     ELSE /\ status' = "running"
          /\ err' = NoErr
          /\ IF e.hasFinally
             THEN /\ Commit(callStack, frames, [ctl EXCEPT ![Len(ctl)] = toFinally(e)])
                  /\ ev' = NoEv
             ELSE /\ Commit(callStack, frames, StmtDone(Pop(ctl), IntV(0)))
                  /\ ev' = TryExitEv(e, "absorbed", TRUE)
  /\ UNCHANGED <<functions, packages, packageStack, lambdas, lambdaTable, classes, objects>>

\* visit(const TryNode*): a failure of the catch body or of the finally body
\* leaves the handler; nothing of the handler runs after it
unwindTryHandler ==
  /\ Raising
  /\ ctl[Len(ctl)].kind \in {"catch", "finally"}
  /\ LET e == ctl[Len(ctl)] IN
     /\ Commit(callStack, frames, Pop(ctl))
     /\ ev' = TryExitEv(e, IF e.kind = "catch" THEN "catchRaised" ELSE "finallyRaised", TRUE)
  /\ UNCHANGED <<status, err, functions, packages, packageStack, lambdas, lambdaTable, classes, objects>>

\* ---- if, case ----
\* KInterpreter::visit(const IfNode*): taken: the condition of the if, of an
\* elseif, or the presence of an else body selects a body to run
visitIf(taken) ==
  /\ IF taken
     THEN CanNest /\ Commit(callStack, frames, Append(ctl, Entry("if", Top)))
     ELSE CanExec /\ Commit(callStack, frames, StmtDone(ctl, IntV(0)))
  /\ ev' = StmtEv
  /\ UNCHANGED <<status, err, functions, packages, packageStack, lambdas, lambdaTable, classes, objects>>

\* KInterpreter::visit(const CaseNode*): matched: a when clause or the else body is selected
visitCase(matched) ==
  /\ IF matched
     THEN CanNest /\ Commit(callStack, frames, Append(ctl, Entry("case", 0)))
     ELSE CanExec /\ Commit(callStack, frames, StmtDone(ctl, IntV(0)))
  /\ ev' = StmtEv
  /\ UNCHANGED <<status, err, functions, packages, packageStack, lambdas, lambdaTable, classes, objects>>

\* the selected body of an if or a case is left: end of the body, or for the if
\* the Return flag of its frame
endBranch ==
  /\ Running
  /\ ctl[Len(ctl)].kind \in {"if", "case"}
  /\ Commit(callStack, frames, StmtDone(Pop(ctl), IntV(0)))
  /\ ev' = NoEv
  /\ UNCHANGED <<status, err, functions, packages, packageStack, lambdas, lambdaTable, classes, objects>>

\* ---- loops ----
\* the values a for loop binds to its value iterator: the elements of a list, the keys of a hash
ListData == {<<>>, <<IntV(1)>>, <<IntV(1), IntV(2)>>}
HashData == {<<>>, <<StrV("k1")>>, <<StrV("k1"), StrV("k2")>>}

LoopEntry(kind, frame, data) ==
  [kind |-> kind, frame |-> frame, ran |-> FALSE, result |-> IntV(0), i |-> 1, data |-> data, ret |-> FALSE]

\* KInterpreter::visit(const ForLoopNode*) with listLoop / hashLoop, a loop
\* without index iterator: bind the first element, or erase the iterator at once
visitForLoop(kind, data) ==
  /\ Len(data) <= MaxLen
  /\ IF data = <<>>
     THEN CanExec /\ Commit(callStack, [frames EXCEPT ![Top].variables["v"] = Unbound], StmtDone(ctl, IntV(0)))
     ELSE CanNest /\ Commit(callStack, [frames EXCEPT ![Top].variables["v"] = data[1]],
                            Append(ctl, LoopEntry(kind, Top, data)))
  /\ ev' = StmtEv
  /\ UNCHANGED <<status, err, functions, packages, packageStack, lambdas, lambdaTable, classes, objects>>

\* listLoop / hashLoop: one pass over the body is over (no statement left, or
\* the Return flag of the frame is set): next element, or the end of the loop
endForBody ==
  /\ Running
  /\ ctl[Len(ctl)].kind \in {"forlist", "forhash"}
  /\ LET e == ctl[Len(ctl)] IN
     IF e.i < Len(e.data)
     THEN Commit(callStack, [frames EXCEPT ![e.frame].variables["v"] = e.data[e.i + 1]],
                 [ctl EXCEPT ![Len(ctl)] = [e EXCEPT !.i = e.i + 1, !.ran = FALSE]])
     ELSE Commit(callStack, [frames EXCEPT ![e.frame].variables["v"] = Unbound], StmtDone(Pop(ctl), e.result))
  /\ ev' = NoEv
  /\ UNCHANGED <<status, err, functions, packages, packageStack, lambdas, lambdaTable, classes, objects>>

\* KInterpreter::visit(const WhileLoopNode*): cond is the truth of the condition
visitWhile(cond) ==
  /\ IF cond
     THEN CanNest /\ Commit(callStack, frames, Append(ctl, LoopEntry("while", 0, <<>>)))
     ELSE CanExec /\ Commit(callStack, frames, StmtDone(ctl, IntV(0)))
  /\ ev' = StmtEv
  /\ UNCHANGED <<status, err, functions, packages, packageStack, lambdas, lambdaTable, classes, objects>>

\* visit(const WhileLoopNode*): the body is over, the condition is evaluated again
endWhileBody(cond) ==
  /\ Running
  /\ ctl[Len(ctl)].kind = "while"
  /\ LET e == ctl[Len(ctl)] IN
     IF cond
     THEN e.i < MaxIter /\ Commit(callStack, frames, [ctl EXCEPT ![Len(ctl)] = [e EXCEPT !.i = e.i + 1]])
     ELSE Commit(callStack, frames, StmtDone(Pop(ctl), e.result))
  /\ ev' = NoEv
  /\ UNCHANGED <<status, err, functions, packages, packageStack, lambdas, lambdaTable, classes, objects>>

\* KInterpreter::visit(const RepeatLoopNode*) with an alias: count is the value of the count expression
visitRepeat(count) ==
  /\ count <= MaxLen
  /\ IF count < 1
     THEN CanExec /\ Commit(callStack, [frames EXCEPT ![Top].variables["v"] = Unbound], StmtDone(ctl, IntV(0)))
     ELSE CanNest /\ Commit(callStack, [frames EXCEPT ![Top].variables["v"] = IntV(1)],
                            Append(ctl, LoopEntry("repeat", Top, [j \in 1..count |-> IntV(j)])))
  /\ ev' = StmtEv
  /\ UNCHANGED <<status, err, functions, packages, packageStack, lambdas, lambdaTable, classes, objects>>

\* visit(const RepeatLoopNode*): the body is over: next count, or the end of the loop
endRepeatBody ==
  /\ Running
  /\ ctl[Len(ctl)].kind = "repeat"
  /\ LET e == ctl[Len(ctl)] IN
     IF e.i < Len(e.data)
     THEN Commit(callStack, [frames EXCEPT ![e.frame].variables["v"] = e.data[e.i + 1]],
                 [ctl EXCEPT ![Len(ctl)] = [e EXCEPT !.i = e.i + 1]])
     ELSE Commit(callStack, [frames EXCEPT ![e.frame].variables["v"] = Unbound], StmtDone(Pop(ctl), e.result))
  /\ ev' = NoEv
  /\ UNCHANGED <<status, err, functions, packages, packageStack, lambdas, lambdaTable, classes, objects>>

\* ---- list built-in each ----
\* KInterpreter::lambdaEach with a lambda of one parameter: the body runs in the caller's frame
visitListEach(data) ==
  /\ Len(data) <= MaxLen
  /\ IF data = <<>>
     THEN CanExec /\ Commit(callStack, [frames EXCEPT ![Top].variables["v"] = Unbound], StmtDone(ctl, IntV(0)))
     ELSE CanNest /\ Commit(callStack, [frames EXCEPT ![Top].variables["v"] = data[1]],
                            Append(ctl, [LoopEntry("each", Top, data) EXCEPT !.ret = FALSE]))
  /\ ev' = StmtEv
  /\ UNCHANGED <<status, err, functions, packages, packageStack, lambdas, lambdaTable, classes, objects>>

\* lambdaEach: the lambda body is over for one element
endEachBody ==
  /\ Running
  /\ ctl[Len(ctl)].kind = "each"
  /\ LET e == ctl[Len(ctl)] IN
     IF e.i < Len(e.data)
     THEN Commit(callStack, [frames EXCEPT ![e.frame].variables["v"] = e.data[e.i + 1]],
                 [ctl EXCEPT ![Len(ctl)] = [e EXCEPT !.i = e.i + 1]])
     ELSE Commit(callStack, [frames EXCEPT ![e.frame].variables["v"] = Unbound], StmtDone(Pop(ctl), e.result))
  /\ ev' = NoEv
  /\ UNCHANGED <<status, err, functions, packages, packageStack, lambdas, lambdaTable, classes, objects>>

\* a failure leaves a handler that has no catch clause: if, case, the loops, each
unwindPlain ==
  /\ Raising
  /\ ctl[Len(ctl)].kind \in {"if", "case", "forlist", "forhash", "while", "repeat", "each"}
  /\ Commit(callStack, frames, Pop(ctl))
  /\ ev' = NoEv
  /\ UNCHANGED <<status, err, functions, packages, packageStack, lambdas, lambdaTable, classes, objects>>

\* ---- programs of calls, returns and absorbing try statements ----
Next ==
  \/ visitProgram
  \/ endProgram
  \/ emptyStackAccess
  \/ \E v \in ReturnVals, c \in BOOLEAN : visitReturn(v, c)
  \/ \E n \in FunctionNames, p \in ParamLists : visitFunctionDeclaration(n, p)
  \/ \E n \in FunctionNames, a \in ArgLists : visitFunctionCall(n, a)
  \/ endCall
  \/ unwindProgram
  \/ unwindCall
  \/ visitTry(FALSE, FALSE, FALSE, FALSE)
  \/ endTryBody
  \/ unwindTryBody

Spec == Init /\ [][Next]_vars

\* ---- programs of try / catch / finally, throw, assignment and calls ----
NextTry ==
  \/ visitProgram
  \/ endProgram
  \/ \E n \in {"e"}, v \in AssignVals : visitAssignment(n, v)
  \/ \E k \in ThrowKinds, c \in BOOLEAN : visitThrow(k, c)
  \/ \E n \in FunctionNames : visitFunctionDeclaration(n, <<>>)
  \/ \E n \in FunctionNames : visitFunctionCall(n, <<>>)
  \/ endCall
  \/ unwindProgram
  \/ unwindCall
  \/ \E hc, hf, bt \in BOOLEAN : visitTry(hc, hf, bt, bt)
  \/ endTryBody
  \/ endCatchBody
  \/ endFinallyBody
  \/ unwindTryBody
  \/ unwindTryHandler

SpecTry == Init /\ [][NextTry]_vars

\* ---- programs of returns inside calls, branches, loops, each and try ----
NextFlow ==
  \/ visitProgram
  \/ endProgram
  \/ \E v \in ReturnVals, c \in BOOLEAN : visitReturn(v, c)
  \/ \E n \in FunctionNames : visitFunctionDeclaration(n, <<>>)
  \/ \E n \in FunctionNames : visitFunctionCall(n, <<>>)
  \/ endCall
  \/ unwindProgram
  \/ unwindPlain
  \/ visitTry(FALSE, FALSE, FALSE, FALSE)
  \/ endTryBody
  \/ unwindTryBody
  \/ \E t \in BOOLEAN : visitIf(t)
  \/ \E t \in BOOLEAN : visitCase(t)
  \/ endBranch
  \/ \E d \in ListData : visitForLoop("forlist", d)
  \/ \E d \in HashData : visitForLoop("forhash", d)
  \/ endForBody
  \/ \E c \in BOOLEAN : visitWhile(c)
  \/ \E c \in BOOLEAN : endWhileBody(c)
  \/ \E n \in 0..MaxLen : visitRepeat(n)
  \/ endRepeatBody
  \/ \E d \in ListData : visitListEach(d)
  \/ endEachBody

SpecFlow == Init /\ [][NextFlow]_vars

\* ---- slice assignment ----
MaxList == 3
SliceIdx == (0 - 1)..2
SliceSteps == (0 - 1)..2
\* the values of the start, stop and step expressions of a slice
SliceArgs ==
  {<<IntV(a), IntV(b), IntV(c)>> : a \in SliceIdx, b \in SliceIdx, c \in SliceSteps}
    \cup {<<StrV("a"), IntV(0), IntV(1)>>, <<IntV(0), StrV("a"), IntV(1)>>, <<IntV(0), IntV(0), StrV("a")>>}
ListLits == {ListV(<<>>), ListV(<<1>>), ListV(<<1, 2>>), ListV(<<1, 2, 3>>)}
RhsLists == {ListV(<<>>), ListV(<<9>>), ListV(<<9, 9>>)}

\* the loop of InterpHelper::updateListSlice for a step other than 1
RECURSIVE sliceLoop(_, _, _, _, _, _)
sliceLoop(elems, rhs, i, stop, step, rhsIndex) ==
  IF i # stop /\ rhsIndex < Len(rhs)
  THEN IF (step > 0 /\ i < Len(elems)) \/ (step < 0 /\ i >= 0)
       THEN IF i < 0 \/ i >= Len(elems)
            THEN [ok |-> FALSE, elems |-> elems]
            ELSE sliceLoop([elems EXCEPT ![i + 1] = rhs[rhsIndex + 1]], rhs, i + step, stop, step, rhsIndex + 1)
       ELSE [ok |-> TRUE, elems |-> elems]
  ELSE [ok |-> TRUE, elems |-> elems]

\* InterpHelper::updateListSlice on integer bounds: the new elements of the
\* target list; ok is FALSE where the vector is accessed outside its range
\* (erase of a reversed range, copy or store past the end), elems is then
\* what is left when the access goes by unnoticed
updateListSlice(insertOp, elems, isSlice, start0, stop0, step, rhs) ==
  LET listSize == Len(elems)
      rhsSize == Len(rhs)
      stop1 == IF ~isSlice /\ insertOp THEN start0 ELSE stop0
      start2 == IF start0 < 0 THEN start0 + listSize ELSE start0
      stop2 == IF stop1 < 0 THEN stop1 + listSize ELSE stop1
      start == IF start2 < 0 THEN 0 ELSE start2
      stop3 == IF stop2 > listSize THEN listSize ELSE stop2
      stop == IF step < 0 /\ stop3 = listSize THEN 0 - 1 ELSE stop3
  IN IF step = 1
     THEN IF start >= stop
          THEN IF start > stop
               THEN [ok |-> FALSE, elems |-> elems]
               ELSE [ok |-> TRUE, elems |-> SubSeq(elems, 1, start) \o rhs \o SubSeq(elems, start + 1, listSize)]
          ELSE [ok |-> start + rhsSize <= listSize,
                elems |-> [i \in 1..listSize |-> IF i > start /\ i <= start + rhsSize THEN rhs[i - start] ELSE elems[i]]]
     ELSE sliceLoop(elems, rhs, start, stop, step, 0)

\* KInterpreter::visit(const IndexAssignmentNode*), the target a slice of the
\* identifier x, with doSliceAssignment: start, stop, step are the values of the
\* slice expressions (getSlice), newValue the value of the initializer
visitIndexAssignment(start, stop, step, newValue) ==
  /\ CanExec
  /\ LET had == frames[Top].variables["x"]
         slicedObj == IF had = Unbound THEN IntV(0) ELSE had
     IN IF slicedObj.t = "list" /\ newValue.t = "list"
        THEN IF start.t # "int" \/ stop.t # "int" \/ step.t # "int"
             THEN /\ status' = "raising"
                  /\ err' = [type |-> "IndexError", msg |-> "must be an integer"]
                  /\ Commit(callStack, [frames EXCEPT ![Top].variables["x"] = slicedObj], ctl)
                  /\ ev' = StmtEv
             ELSE LET r == updateListSlice(FALSE, slicedObj.v, TRUE, start.v, stop.v, step.v, newValue.v) IN
                  /\ Len(r.elems) <= MaxList
                  /\ \/ /\ Commit(callStack, [frames EXCEPT ![Top].variables["x"] = ListV(r.elems)], StmtDone(ctl, IntV(0)))
                        /\ ev' = [kind |-> "slice", before |-> slicedObj.v, start |-> start.v, stop |-> stop.v,
                                  step |-> step.v, rhs |-> newValue.v, after |-> r.elems, defined |-> r.ok]
                        /\ UNCHANGED <<status, err>>
                     \/ ~r.ok /\ Crash
        ELSE /\ Commit(callStack, [frames EXCEPT ![Top].variables["x"] = slicedObj], StmtDone(ctl, IntV(0)))
             /\ ev' = StmtEv
             /\ UNCHANGED <<status, err>>
  /\ UNCHANGED <<functions, packages, packageStack, lambdas, lambdaTable, classes, objects>>

\* ---- programs of list assignments and slice assignments ----
NextSlice ==
  \/ visitProgram
  \/ endProgram
  \/ unwindProgram
  \/ \E v \in ListLits \cup AssignVals : visitAssignment("x", v)
  \/ \E a \in SliceArgs, v \in RhsLists : visitIndexAssignment(a[1], a[2], a[3], v)
  \/ visitIndexAssignment(IntV(0), IntV(1), IntV(1), IntV(1))

SpecSlice == Init /\ [][NextSlice]_vars

\* ---- classes, objects, methods ----
MaxObj == 2

\* the declarations the programs use: a chain C < B < A
BaseOf(name) == IF name = "C" THEN "B" ELSE IF name = "B" THEN "A" ELSE ""

\* the names of instance variables the programs use
InstNames == {"@n"}

\* struct Object: the class name and the instance variables
NewObject(className) == [className |-> className, instanceVariables |-> [n \in InstNames |-> Unbound]]

\* KInterpreter::visit(const ClassNode*): a class with the base class base (""
\* for none), declaring the method greet and a constructor or not
\* Each method is staged in the map methods under the name
\* visit(const FunctionDeclarationNode*) gives it, which is prefixed while
\* packageStack is not empty, and is then moved out of methods[methodName]
\* under its bare name: with a prefix that entry is a new one holding null.
\* The class stack and the map methods are as before when the visit returns
visitClass(name, base, greet, ctor) ==
  /\ CanExec
  /\ IF base # "" /\ ~classes[base].declared
     THEN /\ status' = "raising"
          /\ err' = [type |-> "ClassUndefinedError", msg |-> base]
          /\ Commit(callStack, frames, ctl)
          /\ UNCHANGED classes
     ELSE /\ classes' = [classes EXCEPT ![name] =
                 [declared |-> TRUE, baseClass |-> base,
                  methods |-> [m \in MethodNames |->
                     IF (m = "new" /\ ctor) \/ (m = "greet" /\ greet)
                     THEN IF packageStack # <<>> THEN NullMethod
                          ELSE [st |-> "fn", fn |-> createFunction(<<>>, FALSE, FALSE)]
                     ELSE NoMethod]]]
          /\ Commit(callStack, frames, StmtDone(ctl, IntV(0)))
          /\ UNCHANGED <<status, err>>
  /\ UNCHANGED <<functions, packages, packageStack, lambdas, lambdaTable, objects>>
  /\ ev' = StmtEv

\* std::map::operator[] on KClass::methods: a missing entry is created, holding null
touchMethod(cls, className, methodName) ==
  IF cls[className].methods[methodName] = NoMethod
  THEN [cls EXCEPT ![className].methods[methodName] = NullMethod]
  ELSE cls

\* CallStackFrame::setObjectContext
setObjectContext(frame, object) == [frame EXCEPT !.objectContext = object, !.flags = @ \cup {"InObject"}]

\* the activation of callFunction with what the calling handler keeps for the
\* time after the call: slot is the position on the call stack that its
\* reference frame designates
FunctionEntry(f, handler, obj, objContext, contextSwitch, isCtor, className) ==
  [kind |-> "fbody", frame |-> f, ran |-> FALSE, result |-> IntV(0), firstRet |-> NoVal,
   depthBefore |-> Len(callStack), topBefore |-> Top,
   handler |-> handler, slot |-> Len(callStack), obj |-> obj, objContext |-> objContext,
   contextSwitch |-> contextSwitch, isCtor |-> isCtor, className |-> className]

\* KInterpreter::callFunction up to the first body statement, on the frames fr
\* the calling handler has prepared; no argument is passed
callFunction(fr, function, methodName, entry) ==
  LET functionFrame == createFrame(fr, Top, FALSE)
      b == bindParameters(function, methodName, <<>>, 1, functionFrame.variables)
  IN IF b.ok
     THEN /\ Len(callStack) < MaxDepth
          /\ Commit(Append(callStack, NewId),
                    [fr EXCEPT ![NewId] = [functionFrame EXCEPT !.variables = b.variables]],
                    Append(ctl, [entry EXCEPT !.frame = NewId]))
          /\ UNCHANGED <<status, err>>
     ELSE /\ status' = "raising"
          /\ err' = b.err
          /\ Commit(callStack, fr, ctl)

MethodCallEv(obj, methodName, resolved, supplier) ==
  [kind |-> "methodCall", className |-> objects[obj].className, methodName |-> methodName,
   resolved |-> resolved, supplier |-> supplier]

\* the part callObjectMethod and callObjectBaseMethod have in common: the
\* method is looked up in the class lookupClass only
invokeMethod(handler, obj, lookupClass, methodName) ==
  LET function == classes[lookupClass].methods[methodName]
      contextSwitch == isFlagSet(frames, Top, "InObject")
      objContext == IF contextSwitch THEN frames[Top].objectContext ELSE obj
      fr == [frames EXCEPT ![Top] = setObjectContext(@, obj)]
  IN /\ classes' = touchMethod(classes, lookupClass, methodName)
     /\ IF function.st # "fn"
        THEN /\ status' = "raising"
             /\ err' = [type |-> "UnimplementedMethodError", msg |-> methodName]
             /\ Commit(callStack, fr, ctl)
             /\ ev' = MethodCallEv(obj, methodName, FALSE, "")
        ELSE IF function.fn.isPrivate
        THEN /\ status' = "raising"
             /\ err' = [type |-> "InvalidContextError", msg |-> methodName]
             /\ Commit(callStack, fr, ctl)
             /\ ev' = MethodCallEv(obj, methodName, FALSE, "")
        ELSE /\ callFunction(fr, function.fn, methodName,
                             FunctionEntry(0, handler, obj, objContext, contextSwitch, methodName = "new", lookupClass))
             /\ ev' = MethodCallEv(obj, methodName, TRUE, lookupClass)

\* KInterpreter::callObjectBaseMethod
callObjectBaseMethod(obj, baseClass, methodName) ==
  invokeMethod("callObjectBaseMethod", obj, baseClass, methodName)

\* KInterpreter::callObjectMethod on the object obj of the heap
callObjectMethod(obj, methodName) ==
  /\ CanNest
  /\ obj \in 1..Len(objects)
  /\ LET className == objects[obj].className IN
     IF className \notin ClassNames \/ ~classes[className].declared
     THEN \* classes[obj->className] is a null pointer
          Crash /\ UNCHANGED classes
     ELSE IF classes[className].methods[methodName] = NoMethod
     THEN LET baseClass == classes[className].baseClass IN
          IF baseClass = ""
          THEN /\ status' = "raising"
               /\ err' = [type |-> "UnimplementedMethodError", msg |-> methodName]
               /\ Commit(callStack, frames, ctl)
               /\ ev' = MethodCallEv(obj, methodName, FALSE, "")
               /\ UNCHANGED classes
          ELSE IF ~classes[baseClass].declared
          THEN /\ status' = "raising"
               /\ err' = [type |-> "ClassUndefinedError", msg |-> baseClass]
               /\ Commit(callStack, frames, ctl)
               /\ ev' = MethodCallEv(obj, methodName, FALSE, "")
               /\ UNCHANGED classes
          ELSE callObjectBaseMethod(obj, baseClass, methodName)
     ELSE invokeMethod("callObjectMethod", obj, className, methodName)
  /\ UNCHANGED <<functions, packages, packageStack, lambdas, lambdaTable, objects>>

NewEv(className, obj, objs, result, hasCtor) ==
  [kind |-> "new", class |-> className, obj |-> obj, className |-> objs[obj].className,
   result |-> result, hasCtor |-> hasCtor, fresh |-> obj > Len(objects)]

\* KInterpreter::callClassMethod on a reference to the declared class className
callClassMethod(className, methodName) ==
  /\ CanNest
  /\ classes[className].declared
  /\ LET function == classes[className].methods[methodName]
         isCtor == methodName = "new"
         obj == Len(objects) + 1
     IN /\ classes' = touchMethod(classes, className, methodName)
        /\ IF function.st # "fn" /\ isCtor
           THEN \* default constructor
                /\ Len(objects) < MaxObj
                /\ objects' = Append(objects, NewObject(""))
                /\ Commit(callStack, frames, StmtDone(ctl, ObjV(obj)))
                /\ ev' = NewEv(className, obj, objects', ObjV(obj), FALSE)
                /\ UNCHANGED <<status, err>>
           ELSE IF function.st # "fn"
           THEN \* function->isStatic through a null pointer
                Crash /\ UNCHANGED objects
           ELSE IF ~function.fn.isStatic /\ ~isCtor
           THEN /\ status' = "raising"
                /\ err' = [type |-> "InvalidContextError", msg |-> methodName]
                /\ Commit(callStack, frames, ctl)
                /\ ev' = StmtEv
                /\ UNCHANGED objects
           ELSE IF isCtor
           THEN /\ Len(objects) < MaxObj
                /\ objects' = Append(objects, NewObject(className))
                /\ callFunction([frames EXCEPT ![Top] = setObjectContext(@, obj)], function.fn, methodName,
                                FunctionEntry(0, "callClassMethod", obj, NoObject, FALSE, TRUE, className))
                /\ ev' = StmtEv
           ELSE /\ callFunction(frames, function.fn, methodName,
                                FunctionEntry(0, "callClassMethod", NoObject, NoObject, FALSE, FALSE, className))
                /\ ev' = StmtEv
                /\ UNCHANGED objects
  /\ UNCHANGED <<functions, packages, packageStack, lambdas, lambdaTable>>

\* executeFunctionBody is over (no statement left, or the Return flag of the
\* top frame is set); callFunction drops the frame; then the rest of the
\* handler that called callFunction
endFunctionBody ==
  /\ Running
  /\ ctl[Len(ctl)].kind = "fbody"
  /\ LET e == ctl[Len(ctl)]
         result == IF e.ran /\ Len(callStack) >= 1 /\ isFlagSet(frames, Top, "ReturnFlag")
                   THEN frames[Top].returnValue ELSE e.result
     IN \E o \in dropFrame(frames, callStack) :
          IF ~o.ok \/ e.slot > Len(o.st)
          THEN Crash
          ELSE LET frame == o.st[e.slot]
                   fr == IF e.handler = "callClassMethod"
                         THEN IF e.isCtor THEN [o.fr EXCEPT ![frame].flags = @ \ {"InObject"}] ELSE o.fr
                         ELSE IF e.contextSwitch THEN [o.fr EXCEPT ![frame] = setObjectContext(@, e.objContext)] ELSE o.fr
                   value == IF e.isCtor THEN ObjV(e.obj) ELSE result
               IN /\ Commit(o.st, fr, StmtDone(Pop(ctl), value))
                  /\ ev' = IF e.handler = "callClassMethod" /\ e.isCtor
                           THEN NewEv(e.className, e.obj, objects, value, TRUE)
                           ELSE [kind |-> "callEnd", result |-> value, firstRet |-> e.firstRet, last |-> e.result,
                                 handler |-> e.handler, obj |-> e.obj,
                                 inObjectBefore |-> e.contextSwitch, contextBefore |-> e.objContext,
                                 inObjectAfter |-> isFlagSet(fr, frame, "InObject"),
                                 contextAfter |-> fr[frame].objectContext]
                  /\ UNCHANGED <<status, err>>
  /\ UNCHANGED <<functions, packages, packageStack, lambdas, lambdaTable, classes, objects>>

\* the catch clause of callFunction: dropFrame, rethrow; the calling handler
\* is left without restoring anything
unwindFunctionBody ==
  /\ Raising
  /\ ctl[Len(ctl)].kind = "fbody"
  /\ LET e == ctl[Len(ctl)] IN
     \E o \in dropFrame(frames, callStack) :
       IF o.ok
       THEN /\ Commit(o.st, o.fr, Pop(ctl))
            /\ ev' = [kind |-> "callFailed", depthBefore |-> e.depthBefore, depthAfter |-> Len(o.st),
                      topBefore |-> e.topBefore, topAfter |-> IF o.st = <<>> THEN 0 ELSE o.st[Len(o.st)]]
            /\ UNCHANGED <<status, err>>
       ELSE Crash
  /\ UNCHANGED <<functions, packages, packageStack, lambdas, lambdaTable, classes, objects>>

\* ---- programs of class declarations, constructions and method calls ----
NextObj ==
  \/ visitProgram
  \/ endProgram
  \/ unwindProgram
  \/ visitReturn(IntV(1), TRUE)
  \/ Len(ctl) = 1 /\ visitAssignment("x", IntV(1))
  \/ Len(ctl) = 1 /\ \E n \in ClassNames, g \in BOOLEAN, c \in BOOLEAN : visitClass(n, BaseOf(n), g, c)
  \/ \E c \in ClassNames : callClassMethod(c, "new")
  \/ \E c \in ClassNames : callClassMethod(c, "greet")
  \/ \E o \in 1..MaxObj : callObjectMethod(o, "greet")
  \/ endFunctionBody
  \/ unwindFunctionBody

SpecObj == Init /\ [][NextObj]_vars

\* ---- programs of assignments, declarations with parameters, calls and returns ----
ParamLists2 == {<<>>, <<<<"a", IntV(0)>>>>, <<<<"a", IntV(0)>>, <<"v", IntV(7)>>>>, <<<<"x", IntV(7)>>>>}
ArgLists2 == {<<>>, <<IntV(1)>>, <<IntV(1), IntV(2)>>}

NextCall ==
  \/ visitProgram
  \/ endProgram
  \/ Len(callStack) = 1 /\ visitAssignment("x", IntV(1))
  \/ Len(callStack) >= 2 /\ visitAssignment("x", IntV(2))
  \/ visitReturn(IntV(2), TRUE)
  \/ \E n \in FunctionNames, p \in ParamLists2 : visitFunctionDeclaration(n, p)
  \/ \E n \in FunctionNames, a \in ArgLists2 : visitFunctionCall(n, a)
  \/ endCall
  \/ unwindProgram
  \/ unwindCall

SpecCall == Init /\ [][NextCall]_vars

\* ---- hashes, index assignment, indexing ----
MaxAdds == 3
MaxVal == 3

HashKeys == {"a", "b"}

\* struct Hash: keys is the vector of keys, kvp the map (NoVal: no entry);
\* hist is history, the keys of all calls of add in the order of the calls
Hash(keys, kvp, hist) == [t |-> "hash", v |-> keys, kvp |-> kvp, hist |-> hist]

EmptyHash == Hash(<<>>, [k \in HashKeys |-> NoVal], <<>>)

\* Hash::hasKey
hasKey(hash, key) == hash.kvp[key] # NoVal

\* Hash::get of a key the hash has
get(hash, key) == hash.kvp[key]

\* Hash::add: a new key goes to the end of keys, a key the hash has keeps its place
add(hash, key, value) ==
  Hash(IF hasKey(hash, key) THEN hash.v ELSE Append(hash.v, key), [hash.kvp EXCEPT ![key] = value], Append(hash.hist, key))

\* KInterpreter::visit(const HashLiteralNode*): keys is node->keys, kvps the
\* values of the elements by key
RECURSIVE visitHashLiteral(_, _, _)
visitHashLiteral(hash, keys, kvps) ==
  IF keys = <<>> THEN hash ELSE visitHashLiteral(add(hash, Head(keys), kvps[Head(keys)]), Tail(keys), kvps)

\* the hash literals of the programs
HashLits ==
  {visitHashLiteral(EmptyHash, <<>>, [k \in HashKeys |-> IntV(1)]),
   visitHashLiteral(EmptyHash, <<"b", "a">>, [k \in HashKeys |-> IntV(1)]),
   visitHashLiteral(EmptyHash, <<"a">>, [k \in HashKeys |-> EmptyHash])}

\* MathImpl.do_binary_op for the operator of += on two integers
do_binary_op(oldValue, newValue) == IntV(oldValue.v + newValue.v)

\* the keys the iterator of KInterpreter::hashLoop takes, one after the other,
\* as the order of the map kvp would give them
hashLoopSorted(hash) ==
  IF Len(hash.v) = 2 THEN <<StrV("a"), StrV("b")>> ELSE [i \in 1..Len(hash.v) |-> StrV(hash.v[i])]

\* the keys the iterator of KInterpreter::hashLoop takes, one after the other:
\* for (const auto& key : keys)
hashLoop(hash) == [i \in 1..Len(hash.v) |-> StrV(hash.v[i])]

\* KInterpreter::visit(const ForLoopNode*), the data set the hash in the variable m
visitHashLoop ==
  /\ CanExec
  /\ frames[Top].variables["m"].t = "hash"
  /\ visitForLoop("forhash", hashLoop(frames[Top].variables["m"]))

\* a for loop over the hash in m is running in the top frame
InHashLoop == \E j \in 1..Len(ctl) : ctl[j].kind = "forhash"

\* the record of an index assignment or of an indexing: the indexed value
\* before and after, the index, the operator and the value of the initializer
IndexEv(nested, leg, before, key, op, new, after) ==
  [kind |-> "index", nested |-> nested, leg |-> leg, before |-> before, key |-> key, op |-> op, new |-> new, after |-> after]

\* KInterpreter::visit(const IndexAssignmentNode*), the target name[index] with
\* an index that is no index expression itself; list elements are integers
visitIndexAssign(name, index, op, newValue) ==
  /\ CanExec
  /\ LET had == frames[Top].variables[name]
         indexedObj == IF had = Unbound THEN IntV(0) ELSE had
         Raise(type) ==
           /\ status' = "raising"
           /\ err' = [type |-> type, msg |-> "index assignment"]
           /\ Commit(callStack, [frames EXCEPT ![Top].variables[name] = indexedObj], ctl)
           /\ ev' = IndexEv(FALSE, "none", indexedObj, index, op, newValue, indexedObj)
         Store(after) ==
           /\ Commit(callStack, [frames EXCEPT ![Top].variables[name] = after], StmtDone(ctl, IntV(0)))
           /\ ev' = IndexEv(FALSE, "none", indexedObj, index, op, newValue, after)
           /\ UNCHANGED <<status, err>>
     IN IF indexedObj.t = "list" /\ index.t = "int"
        THEN IF index.v < 0 \/ index.v >= Len(indexedObj.v)
             THEN Raise("IndexError")
             ELSE LET value == IF op = "=" THEN newValue ELSE do_binary_op(IntV(indexedObj.v[index.v + 1]), newValue) IN
                  /\ value.v <= MaxVal
                  /\ Store(ListV([indexedObj.v EXCEPT ![index.v + 1] = value.v]))
        ELSE IF indexedObj.t = "hash" /\ index.t = "str"
        THEN IF op = "="
             THEN /\ Len(indexedObj.hist) < MaxAdds
                  /\ Store(add(indexedObj, index.v, newValue))
             ELSE IF ~hasKey(indexedObj, index.v)
                  THEN Raise("HashKeyError")
                  ELSE LET oldValue == get(indexedObj, index.v) IN
                       /\ oldValue.t = "int"
                       /\ oldValue.v + newValue.v <= MaxVal
                       /\ Len(indexedObj.hist) < MaxAdds
                       /\ Store(add(indexedObj, index.v, do_binary_op(oldValue, newValue)))
        ELSE Store(indexedObj)
  /\ UNCHANGED <<functions, packages, packageStack, lambdas, lambdaTable, classes, objects>>

\* KInterpreter::visit(const IndexingNode*), the index no index expression
\* itself, the object a list of integers, a hash or an integer
indexing(object, indexValue) ==
  IF object.t = "list"
  THEN IF indexValue.v < 0 \/ indexValue.v >= Len(object.v)
       THEN [ok |-> FALSE, err |-> "RangeError", value |-> NoVal]
       ELSE [ok |-> TRUE, err |-> "", value |-> IntV(object.v[indexValue.v + 1])]
  ELSE IF object.t = "hash"
  THEN IF ~hasKey(object, indexValue.v)
       THEN [ok |-> FALSE, err |-> "HashKeyError", value |-> NoVal]
       ELSE [ok |-> TRUE, err |-> "", value |-> get(object, indexValue.v)]
  ELSE [ok |-> FALSE, err |-> "IndexError", value |-> NoVal]

\* KInterpreter::visit(const IdentifierNode*) for a name without @ that is no
\* class and no lambda
identifier(name) == IF hasVariable(frames, Top, name) THEN frames[Top].variables[name] ELSE IntV(0)

\* the statement name[index]: KInterpreter::visit(const IndexingNode*)
visitIndexing(name, index) ==
  /\ CanExec
  /\ LET object == identifier(name)
         r == indexing(object, index)
     IN /\ object.t = "list" => index.t = "int"
        /\ object.t = "hash" => index.t = "str"
        /\ ev' = [kind |-> "read", object |-> object, key |-> index, ok |-> r.ok, value |-> r.value]
        /\ IF r.ok
           THEN Commit(callStack, frames, StmtDone(ctl, r.value)) /\ UNCHANGED <<status, err>>
           ELSE /\ status' = "raising"
                /\ err' = [type |-> r.err, msg |-> "indexing"]
                /\ Commit(callStack, frames, ctl)
  /\ UNCHANGED <<functions, packages, packageStack, lambdas, lambdaTable, classes, objects>>

\* the index expression of the innermost level of a nested index assignment:
\* an identifier (its name and its value) or a literal (its value)
IndexNodes ==
  {[type |-> "IDENTIFIER", name |-> k, value |-> IntV(0)] : k \in HashKeys}
    \cup {[type |-> "LITERAL", name |-> "", value |-> StrV(k)] : k \in HashKeys}
    \cup {[type |-> "LITERAL", name |-> "", value |-> IntV(0)]}

\* the assignment of KInterpreter::handleNestedIndexing to the element listIndex of a list
nestedListStore(list, listIndex, op, newValue) ==
  IF listIndex < 0 \/ listIndex >= Len(list.v)
  THEN {[ok |-> FALSE, err |-> "IndexError", value |-> list]}
  ELSE {[ok |-> TRUE, err |-> "",
         value |-> ListV([list.v EXCEPT ![listIndex + 1] =
                            IF op = "=" THEN newValue.v ELSE do_binary_op(IntV(list.v[listIndex + 1]), newValue).v])]}

\* KInterpreter::handleNestedIndexing, the index expression an identifier or a
\* literal: the outcomes, each the base object after the assignment or an
\* error. Hash::get of a key the hash has not fails with HashKeyError
handleNestedIndexing(indexNode, baseObj, op, newValue) ==
  IF indexNode.type = "IDENTIFIER" /\ baseObj.t = "hash"
  THEN LET key == indexNode.name IN
       IF hasKey(baseObj, key)
       THEN {[ok |-> TRUE, err |-> "",
              value |-> add(baseObj, key, IF op = "=" THEN newValue ELSE do_binary_op(get(baseObj, key), newValue))]}
       ELSE {[ok |-> FALSE, err |-> "HashKeyError", value |-> baseObj]}
  ELSE IF indexNode.type = "IDENTIFIER" /\ baseObj.t = "list"
  THEN nestedListStore(baseObj, indexNode.value.v, op, newValue)
  ELSE IF indexNode.type = "LITERAL" /\ baseObj.t = "list" /\ indexNode.value.t = "int"
  THEN nestedListStore(baseObj, indexNode.value.v, op, newValue)
  ELSE IF indexNode.type = "LITERAL" /\ baseObj.t = "hash" /\ indexNode.value.t = "str"
  THEN LET key == indexNode.value.v IN
       IF op = "="
       THEN {[ok |-> TRUE, err |-> "", value |-> add(baseObj, key, newValue)]}
       ELSE IF hasKey(baseObj, key)
       THEN {[ok |-> TRUE, err |-> "", value |-> add(baseObj, key, do_binary_op(get(baseObj, key), newValue))]}
       ELSE {[ok |-> FALSE, err |-> "HashKeyError", value |-> baseObj]}
  ELSE {[ok |-> FALSE, err |-> "IndexError", value |-> baseObj]}

\* KInterpreter::visit(const IndexAssignmentNode*), the target name[key1][index]:
\* the base object is the value of name[key1], handleNestedIndexing assigns
\* into it in place
visitNestedIndexAssign(name, key1, indexNode, op, newValue) ==
  /\ CanExec
  /\ LET object == identifier(name)
         base == indexing(object, key1)
         key == IF indexNode.type = "IDENTIFIER" /\ base.value.t = "hash" THEN StrV(indexNode.name) ELSE indexNode.value
     IN /\ object.t = "hash" /\ key1.t = "str"
        /\ IF ~base.ok
           THEN /\ status' = "raising"
                /\ err' = [type |-> base.err, msg |-> "indexing"]
                /\ Commit(callStack, frames, ctl)
                /\ ev' = StmtEv
           ELSE \E r \in handleNestedIndexing(indexNode, base.value, op, newValue) :
                  /\ ev' = IndexEv(TRUE, indexNode.type, base.value, key, op, newValue, r.value)
                  /\ IF r.ok
                     THEN /\ r.value.t = "hash" => Len(r.value.hist) <= MaxAdds
                          /\ Commit(callStack, [frames EXCEPT ![Top].variables[name].kvp[key1.v] = r.value],
                                    StmtDone(ctl, IntV(0)))
                          /\ UNCHANGED <<status, err>>
                     ELSE /\ status' = "raising"
                          /\ err' = [type |-> r.err, msg |-> "index assignment"]
                          /\ Commit(callStack, frames, ctl)
  /\ UNCHANGED <<functions, packages, packageStack, lambdas, lambdaTable, classes, objects>>

\* the loops of InterpHelper::interpretListSlice: the elements pushed from index i on
RECURSIVE sliceWalk(_, _, _, _, _)
sliceWalk(elems, i, stop, step, slicedList) ==
  IF step < 0
  THEN IF i >= stop /\ ~(i < 0 \/ i >= Len(elems))
       THEN sliceWalk(elems, i + step, stop, step, Append(slicedList, elems[i + 1]))
       ELSE slicedList
  ELSE IF i < stop /\ ~(i >= Len(elems))
       THEN sliceWalk(elems, i + step, stop, step, Append(slicedList, elems[i + 1]))
       ELSE slicedList

\* InterpHelper::interpretListSlice: a list, an element, an error, or no
\* result at all: with step 0 the loop for (i = start; i < stop; i += step)
\* pushes elements[start] for ever once it is entered
interpretListSlice(isSlice, indexOrStart, stopIndex, stepValue, elems) ==
  IF isSlice
  THEN IF indexOrStart.t # "int" \/ stopIndex.t # "int" \/ stepValue.t # "int"
       THEN [kind |-> "error", err |-> "IndexError", value |-> NoVal]
       ELSE LET listSize == Len(elems)
                step == stepValue.v
                start == IF indexOrStart.v < 0
                         THEN (IF indexOrStart.v + listSize > 0 THEN indexOrStart.v + listSize ELSE 0)
                         ELSE indexOrStart.v
                stop1 == IF stopIndex.v < 0 THEN stopIndex.v + listSize
                         ELSE (IF stopIndex.v < listSize THEN stopIndex.v ELSE listSize)
                stop == IF step < 0 /\ stop1 = listSize THEN 0 - 1 ELSE stop1
            IN IF step = 0 /\ start < stop /\ start < listSize
               THEN [kind |-> "endless", err |-> "", value |-> NoVal]
               ELSE IF step = 0
               THEN [kind |-> "value", err |-> "", value |-> ListV(<<>>)]
               ELSE [kind |-> "value", err |-> "",
                     value |-> ListV(sliceWalk(elems, IF step < 0 /\ start = 0 THEN listSize - 1 ELSE start, stop, step, <<>>))]
  ELSE IF indexOrStart.t # "int"
       THEN [kind |-> "error", err |-> "IndexError", value |-> NoVal]
       ELSE LET listSize == Len(elems)
                index == IF indexOrStart.v < 0 THEN indexOrStart.v + listSize ELSE indexOrStart.v
            IN IF index < 0 \/ index >= listSize
               THEN [kind |-> "error", err |-> "RangeError", value |-> NoVal]
               ELSE [kind |-> "value", err |-> "", value |-> IntV(elems[index + 1])]

\* the statement x[start:stop:step]: KInterpreter::visit(const SliceNode*) with
\* getSlice, the slice of a list taken by interpretListSlice; a loop that
\* never ends exhausts the memory of the process
visitSlice(start, stop, step) ==
  /\ CanExec
  /\ LET object == identifier("x")
         r == IF object.t = "list" THEN interpretListSlice(TRUE, start, stop, step, object.v)
              ELSE [kind |-> "error", err |-> "InvalidOperationError", value |-> NoVal]
     IN /\ ev' = [kind |-> "sliceRead", object |-> object, start |-> start, stop |-> stop, step |-> step,
                  outcome |-> r.kind, value |-> r.value]
        /\ IF r.kind = "value"
           THEN Commit(callStack, frames, StmtDone(ctl, r.value)) /\ UNCHANGED <<status, err>>
           ELSE IF r.kind = "error"
           THEN /\ status' = "raising"
                /\ err' = [type |-> r.err, msg |-> "slice"]
                /\ Commit(callStack, frames, ctl)
           ELSE /\ status' = "crashed"
                /\ err' = NoErr
                /\ Commit(<<>>, frames, <<>>)
  /\ UNCHANGED <<functions, packages, packageStack, lambdas, lambdaTable, classes, objects>>

\* the slices of the programs
IndexSlices ==
  {<<IntV(a), IntV(b), IntV(c)>> : a \in 0..1, b \in 1..2, c \in (0 - 1)..2} \cup {<<IntV(0), IntV(1), StrV("a")>>}

\* ---- programs of list assignments, index assignments and indexing ----
IndexLists == {ListV(<<>>), ListV(<<1, 2>>)}

NextIndex ==
  \/ visitProgram
  \/ endProgram
  \/ unwindProgram
  \/ \E v \in IndexLists \cup AssignVals : visitAssignment("x", v)
  \/ \E i \in (0 - 3)..2, op \in {"=", "+="} : visitIndexAssign("x", IntV(i), op, IntV(1))
  \/ \E i \in (0 - 3)..2 : visitIndexing("x", IntV(i))
  \/ \E a \in IndexSlices, v \in RhsLists : visitIndexAssignment(a[1], a[2], a[3], v)
  \/ \E a \in IndexSlices : visitSlice(a[1], a[2], a[3])

SpecIndex == Init /\ [][NextIndex]_vars

\* ---- programs of hash assignments, index assignments, indexing and for loops over a hash ----
NextHash ==
  \/ visitProgram
  \/ endProgram
  \/ unwindProgram
  \/ unwindPlain
  \/ \E v \in HashLits : Len(ctl) = 1 /\ visitAssignment("m", v)
  \/ \E k \in HashKeys, op \in {"=", "+="} :
       /\ InHashLoop => hasKey(identifier("m"), k)
       /\ visitIndexAssign("m", StrV(k), op, IntV(1))
  \/ \E k \in HashKeys, n \in IndexNodes, op \in {"=", "+="} : visitNestedIndexAssign("m", StrV(k), n, op, IntV(1))
  \/ \E k \in HashKeys : visitIndexing("m", StrV(k))
  \/ Len(ctl) = 1 /\ visitHashLoop
  \/ endForBody

SpecHash == Init /\ [][NextHash]_vars

\* ---- assignment to instance variables, compound assignment ----
\* KInterpreter::visit(const IdentifierNode*) of the left side of an assignment,
\* as far as it changes the objects: in object context a name with @ is read by
\* instanceVariables[name], which creates a missing entry with the default value
leftIdentifier(name) ==
  LET obj == frames[Top].objectContext IN
  IF isFlagSet(frames, Top, "InObject") /\ name \in InstNames /\ objects[obj].instanceVariables[name] = Unbound
  THEN [objects EXCEPT ![obj].instanceVariables[name] = IntV(0)]
  ELSE objects

\* the record of a compound assignment: the name, and whether it was bound in
\* the locals of the top frame or, in object context, in the object, before
CompoundEv(name) ==
  LET inObject == isFlagSet(frames, Top, "InObject")
      obj == frames[Top].objectContext
  IN [kind |-> "compound", name |-> name, inObject |-> inObject, obj |-> obj,
      bound |-> \/ name \in Names /\ hasVariable(frames, Top, name)
                \/ inObject /\ name \in InstNames /\ objects[obj].instanceVariables[name] # Unbound]

\* KInterpreter::visit(const AssignmentNode*), op "=", in object context, the
\* name beginning with @: the value goes to the instance variables
visitInstAssignment(name, value) ==
  /\ CanExec
  /\ isFlagSet(frames, Top, "InObject")
  /\ objects' = [leftIdentifier(name) EXCEPT ![frames[Top].objectContext].instanceVariables[name] = value]
  /\ Commit(callStack, frames, StmtDone(ctl, value))
  /\ ev' = StmtEv
  /\ UNCHANGED <<status, err, functions, packages, packageStack, lambdas, lambdaTable, classes>>

\* KInterpreter::visit(const AssignmentNode*), op "+=": the left side is
\* interpreted first, then the name is looked up in the locals of the top
\* frame and, in object context, in the instance variables of the object
visitCompoundAssignment(name, value) ==
  /\ CanExec
  /\ LET obj == frames[Top].objectContext
         objects1 == leftIdentifier(name)
         Raise ==
           /\ status' = "raising"
           /\ err' = [type |-> "VariableUndefinedError", msg |-> name]
           /\ Commit(callStack, frames, ctl)
           /\ objects' = objects1
     IN /\ ev' = CompoundEv(name)
        /\ IF name \in Names /\ hasVariable(frames, Top, name)
           THEN LET oldValue == frames[Top].variables[name] IN
                /\ oldValue.t = "int" /\ oldValue.v + value.v <= MaxVal
                /\ Commit(callStack, [frames EXCEPT ![Top].variables[name] = do_binary_op(oldValue, value)],
                          StmtDone(ctl, do_binary_op(oldValue, value)))
                /\ objects' = objects1
                /\ UNCHANGED <<status, err>>
           ELSE IF isFlagSet(frames, Top, "InObject")
           THEN IF name \notin InstNames \/ objects1[obj].instanceVariables[name] = Unbound
                THEN Raise
                ELSE LET oldValue == objects1[obj].instanceVariables[name] IN
                     /\ oldValue.v + value.v <= MaxVal
                     /\ objects' = [objects1 EXCEPT ![obj].instanceVariables[name] = do_binary_op(oldValue, value)]
                     /\ Commit(callStack, frames, StmtDone(ctl, do_binary_op(oldValue, value)))
                     /\ UNCHANGED <<status, err>>
           ELSE Raise
  /\ UNCHANGED <<functions, packages, packageStack, lambdas, lambdaTable, classes>>

\* ---- programs of a class, its objects and assignments in its methods ----
NextInst ==
  \/ visitProgram
  \/ endProgram
  \/ unwindProgram
  \/ Len(ctl) = 1 /\ visitClass("A", "", TRUE, TRUE)
  \/ callClassMethod("A", "new")
  \/ \E o \in 1..MaxObj : callObjectMethod(o, "greet")
  \/ endFunctionBody
  \/ unwindFunctionBody
  \/ visitAssignment("x", IntV(1))
  \/ visitInstAssignment("@n", IntV(1))
  \/ \E n \in {"x", "@n"} : visitCompoundAssignment(n, IntV(1))

SpecInst == Init /\ [][NextInst]_vars

\* ---- lambdas, calls of lambdas, methods and built-ins by name ----
\* the statement name = with (parameters) do ... end:
\* KInterpreter::visit(const LambdaNode*) registers the lambda under a fresh
\* temporary identifier, visit(const AssignmentNode*) then moves the entry of
\* that identifier to the name, which leaves a null pointer behind
visitLambdaAssignment(name, parameters) ==
  /\ CanExec
  /\ \E tmpId \in TempIds :
       /\ lambdas[tmpId] = NoLambda
       /\ tmpId = "t2" => lambdas["t1"] # NoLambda
       /\ lambdas' = [lambdas EXCEPT ![tmpId] = NullLambda, ![name] = KLambda(parameters, tmpId)]
       /\ lambdaTable' = [lambdaTable EXCEPT ![tmpId] = tmpId]
       /\ Commit(callStack, frames, StmtDone(ctl, LambdaV(tmpId)))
       /\ ev' = [kind |-> "lambdaAssign", name |-> name, identifier |-> tmpId,
                 value |-> KLambda(parameters, tmpId), after |-> lambdas'[name],
                 localBefore |-> frames[Top].variables, localAfter |-> frames[Top].variables]
  /\ UNCHANGED <<status, err, functions, packages, packageStack, classes, objects>>

\* visit(const AssignmentNode*), name = source, where visit(const
\* IdentifierNode*) makes of source a reference to a lambda: source is no
\* local; it is a key of lambdas, or lambdaTable maps it to one.
\* lambdas[name] = std::move(lambdas[lambdaId]) leaves a null pointer behind
visitLambdaRefAssignment(name, source) ==
  /\ CanExec
  /\ ~hasVariable(frames, Top, source)
  /\ \/ lambdas[source] # NoLambda
     \/ source \in TableKeys /\ lambdaTable[source] # "" /\ lambdas[lambdaTable[source]] # NoLambda
  /\ LET lambdaId == IF lambdas[source] # NoLambda THEN source ELSE lambdaTable[source] IN
     /\ lambdas' = IF lambdaId = name THEN lambdas
                   ELSE [lambdas EXCEPT ![name] = lambdas[lambdaId], ![lambdaId] = NullLambda]
     /\ ev' = [kind |-> "lambdaAssign", name |-> name, identifier |-> lambdaId,
               value |-> lambdas[lambdaId], after |-> lambdas'[name],
               localBefore |-> frames[Top].variables, localAfter |-> frames[Top].variables]
     /\ Commit(callStack, frames, StmtDone(ctl, LambdaV(lambdaId)))
  /\ UNCHANGED <<status, err, functions, packages, packageStack, lambdaTable, classes, objects>>

\* KInterpreter::visit(const FunctionCallNode*), the branches Lambda and
\* Method, up to the first body statement: func is the callable found (a null
\* pointer is dereferenced at once), errName the name a parameter count
\* mismatch reports
callBranch(func, name, errName, arguments, callable) ==
  IF func.st = "null"
  THEN Crash /\ UNCHANGED lambdaTable
  ELSE LET function == IF func.st = "fn" THEN func.fn ELSE func
           functionFrame == createFrame(frames, Top, FALSE)
           b == bindParameters(function, errName, arguments, 1, functionFrame.variables)
       IN /\ lambdaTable' = bindLambdaTable(function, arguments, b.n)
          /\ IF b.ok
             THEN /\ Len(callStack) < MaxDepth
                  /\ Commit(Append(callStack, NewId),
                            [frames EXCEPT ![NewId] = [functionFrame EXCEPT !.variables = b.variables]],
                            Append(ctl, CallEntry(NewId)))
                  /\ ev' = ResolveEv(name, callable)
                  /\ UNCHANGED <<status, err>>
             ELSE \E o \in dropFrame(frames, callStack) :
                    IF o.ok
                    THEN /\ status' = "raising"
                         /\ err' = b.err
                         /\ Commit(o.st, o.fr, ctl)
                         /\ ev' = [kind |-> "callFailed", depthBefore |-> Len(callStack), depthAfter |-> Len(o.st),
                                   topBefore |-> Top, topAfter |-> IF o.st = <<>> THEN 0 ELSE o.st[Len(o.st)]]
                    ELSE Crash

\* KInterpreter::visit(const FunctionCallNode*), callableType Lambda
visitFunctionCallLambda(name, arguments) ==
  /\ CanNest
  /\ getCallable(name) = "Lambda"
  /\ LET targetLambda == IF name \in LambdaKeys /\ lambdas[name] # NoLambda THEN name ELSE lambdaTable[name]
     IN callBranch(lambdas[targetLambda], name, targetLambda, arguments, "Lambda")
  /\ UNCHANGED <<functions, packages, packageStack, lambdas, classes, objects>>

\* KInterpreter::visit(const FunctionCallNode*), callableType Method
visitFunctionCallMethod(name, arguments) ==
  /\ CanNest
  /\ getCallable(name) = "Method"
  /\ callBranch(classes[objects[frames[Top].objectContext].className].methods[name], name, name, arguments, "Method")
  /\ UNCHANGED <<functions, packages, packageStack, lambdas, classes, objects>>

\* KInterpreter::visit(const FunctionCallNode*), callableType Builtin, with
\* callBuiltinMethod: a built-in that changes nothing the interpreter keeps
callBuiltinMethod(name) ==
  /\ CanExec
  /\ getCallable(name) = "Builtin"
  /\ Commit(callStack, frames, StmtDone(ctl, IntV(0)))
  /\ ev' = ResolveEv(name, "Builtin")
  /\ UNCHANGED <<status, err, functions, packages, packageStack, lambdas, lambdaTable, classes, objects>>

\* ---- programs of declarations, lambdas, a class and calls by name ----
\* the names called are f, a, println, greet and h; the identifier f as an
\* argument is a reference to the lambda f where the lambda registry has the name
NextResolve ==
  \/ visitProgram
  \/ endProgram
  \/ unwindProgram
  \/ unwindCall
  \/ endCall
  \/ \E p \in {<<>>, <<<<"a", IntV(0)>>>>} : Len(ctl) = 1 /\ visitFunctionDeclaration("f", p)
  \/ Len(ctl) = 1 /\ visitLambdaAssignment("f", <<>>)
  \/ Len(ctl) = 1 /\ visitClass("A", "", TRUE, TRUE)
  \/ callClassMethod("A", "new")
  \/ \E o \in 1..MaxObj : callObjectMethod(o, "greet")
  \/ endFunctionBody
  \/ unwindFunctionBody
  \/ \E n \in {"f", "a", "println", "greet", "h"}, a \in {<<>>, <<LambdaV("f")>>} :
       /\ a # <<>> => lambdas["f"] # NoLambda
       /\ visitFunctionCall(n, a)
  \/ \E n \in {"f", "a", "println", "greet", "h"} : visitFunctionCallLambda(n, <<>>)
  \/ \E n \in {"f", "a", "println", "greet", "h"} : visitFunctionCallMethod(n, <<>>)
  \/ \E n \in {"f", "a", "println", "greet", "h"} : callBuiltinMethod(n)

SpecResolve == Init /\ [][NextResolve]_vars

\* ---- programs of lambda declarations, assignments of lambdas to names and calls ----
NextLambda ==
  \/ visitProgram
  \/ endProgram
  \/ unwindProgram
  \/ unwindCall
  \/ endCall
  \/ \E n \in {"f", "g"}, p \in {<<>>, <<<<"a", IntV(0)>>>>} : Len(ctl) = 1 /\ visitLambdaAssignment(n, p)
  \/ \E n, src \in {"f", "g"} : visitLambdaRefAssignment(n, src)
  \/ \E n \in {"f", "g", "a"}, a \in {<<>>, <<IntV(1)>>} : visitFunctionCallLambda(n, a)
  \/ \E n \in {"f", "g"}, src \in {"f", "g"} :
       /\ lambdas[src] # NoLambda
       /\ visitFunctionCallLambda(n, <<LambdaV(src)>>)

SpecLambda == Init /\ [][NextLambda]_vars

\* ---- list built-ins taking a lambda: map ----
\* the statements of a lambda body: expressions over the map variable v
BodyStmts == {"v", "v + 1", "0"}

\* KInterpreter::interpret of one body statement in a frame with these variables
interpretStmt(stmt, variables) ==
  IF stmt = "v" THEN variables["v"].v
  ELSE IF stmt = "v + 1" THEN variables["v"].v + 1
  ELSE 0

\* KInterpreter::lambdaMap: the list returned and the variables of the top
\* frame afterwards; the value of every body statement is appended
lambdaMap(lambda, list, variables) ==
  IF lambda.parameters = <<>>
  THEN [value |-> list, variables |-> variables]
  ELSE LET mapVariable == lambda.parameters[1][1]
           decl == lambda.node
           elements == list.v
           resultList == [k \in 1..(Len(elements) * Len(decl)) |->
                            interpretStmt(decl[((k - 1) % Len(decl)) + 1],
                                          [variables EXCEPT ![mapVariable] = IntV(elements[((k - 1) \div Len(decl)) + 1])])]
       IN [value |-> ListV(resultList), variables |-> [variables EXCEPT ![mapVariable] = Unbound]]

\* KInterpreter::visit(const MethodCallNode*) of name.map(lambda), the
\* argument a lambda literal: visit(const LambdaNode*) registers it under a
\* fresh temporary id, interpretListBuiltin finds it and runs lambdaMap
visitListMap(name, parameters, body) ==
  /\ CanExec
  /\ \E tmpId \in TempIds :
       /\ lambdas[tmpId] = NoLambda
       /\ tmpId = "t2" => lambdas["t1"] # NoLambda
       /\ lambdas' = [lambdas EXCEPT ![tmpId] = KLambda(parameters, body)]
       /\ lambdaTable' = [lambdaTable EXCEPT ![tmpId] = tmpId]
       /\ LET object == identifier(name)
              r == lambdaMap(KLambda(parameters, body), object, frames[Top].variables)
          IN IF object.t # "list"
             THEN /\ status' = "raising"
                  /\ err' = [type |-> "InvalidOperationError", msg |-> "Expected a list for specialized list builtin."]
                  /\ ev' = [kind |-> "map", ok |-> FALSE]
                  /\ Commit(callStack, frames, ctl)
             ELSE /\ ev' = [kind |-> "map", ok |-> TRUE, list |-> object.v, parameters |-> parameters,
                            body |-> body, value |-> r.value, op |-> "map",
                            depthAtCall |-> Len(callStack), depthInBody |-> Len(callStack),
                            before |-> frames[Top].variables, after |-> r.variables]
                  /\ Commit(callStack, [frames EXCEPT ![Top].variables = r.variables], StmtDone(ctl, r.value))
                  /\ UNCHANGED <<status, err>>
  /\ UNCHANGED <<functions, packages, packageStack, classes, objects>>

\* ---- programs of list assignments and maps ----
NextMap ==
  \/ visitProgram
  \/ endProgram
  \/ unwindProgram
  \/ \E v \in {ListV(<<>>), ListV(<<1>>), ListV(<<2, 1>>), IntV(1)} : visitAssignment("x", v)
  \/ \E p \in {<<>>, <<<<"v", IntV(0)>>>>, <<<<"v", IntV(0)>>, <<"a", IntV(0)>>>>},
        n \in 1..MaxLen : \E body \in [1..n -> BodyStmts] : visitListMap("x", p, body)

SpecMap == Init /\ [][NextMap]_vars

\* ---- statements whose subexpressions may throw ----
\* the expression name() where no registry has the name: getCallable throws
\* FunctionUndefinedError with the name
ArgCall(name) == [t |-> "raise", v |-> 1, name |-> name]

\* a statement that ends in the error of the subexpression at position i of
\* nodes, the subexpressions in source order from left to right; fr is the
\* frame heap as the statement has left it by then
throwFrom(statement, nodes, i, fr) ==
  /\ CanExec
  /\ getCallable(nodes[i].name) = "Undefined"
  /\ status' = "raising"
  /\ err' = [type |-> "FunctionUndefinedError", msg |-> nodes[i].name]
  /\ ev' = [kind |-> "order", statement |-> statement, nodes |-> nodes, thrower |-> i]
  /\ Commit(callStack, fr, ctl)
  /\ UNCHANGED <<functions, packages, packageStack, lambdas, lambdaTable, classes, objects>>

\* KInterpreter::visit(const IndexAssignmentNode*), name[index] = initializer:
\* node->initializer is interpreted on entry, the index expression after it
visitIndexAssignmentNodes(name, index, initializer) ==
  IF initializer.t = "raise" THEN throwFrom("indexAssignment", <<index, initializer>>, 2, frames)
  ELSE IF index.t = "raise"
  THEN \* frame->variables[identifierName] has bound the name by then
       throwFrom("indexAssignment", <<index, initializer>>, 1,
                 [frames EXCEPT ![Top].variables[name] = identifier(name)])
  ELSE visitIndexAssign(name, index, "=", initializer)

\* KInterpreter::visit(const AssignmentNode*), name = initializer: node->left,
\* an identifier, is interpreted first and cannot throw, node->initializer next
visitAssignmentNodes(name, initializer) ==
  IF initializer.t = "raise" THEN throwFrom("assignment", <<identifier(name), initializer>>, 2, frames)
  ELSE visitAssignment(name, initializer)

\* ---- programs of a declaration, assignments and calls with throwing subexpressions ----
NextOrder ==
  \/ visitProgram
  \/ endProgram
  \/ unwindProgram
  \/ unwindCall
  \/ endCall
  \/ \E p \in {<<<<"a", IntV(0)>>>>, <<<<"a", IntV(0)>>, <<"v", IntV(0)>>>>} :
       Len(ctl) <= 2 /\ visitFunctionDeclaration("f", p)
  \/ \E i, v \in {IntV(0), IntV(1), ArgCall("g"), ArgCall("h")} : visitIndexAssignmentNodes("x", i, v)
  \/ \E v \in {ListV(<<1, 2>>), IntV(1), ArgCall("g")} : visitAssignmentNodes("x", v)
  \/ \E n \in 0..MaxLen : \E a \in [1..n -> {IntV(1), ArgCall("g"), ArgCall("h")}] : visitFunctionCall("f", a)

SpecOrder == Init /\ [][NextOrder]_vars

\* ---- and, or ----
\* MathImpl.is_truthy: non-zero numbers, non-empty strings, lists and hashes, true
is_truthy(v) ==
  IF v.t = "int" THEN v.v # 0
  ELSE IF v.t = "bool" THEN v.v
  ELSE IF v.t = "str" THEN v.v # ""
  ELSE IF v.t = "list" THEN v.v # <<>>
  ELSE FALSE

\* an operator that interprets the right operand whatever the left one is
binaryOperationEager(op, left, right) ==
  IF right.t = "raise" THEN [evaluated |-> <<"left", "right">>, ok |-> FALSE, value |-> NoVal]
  ELSE [evaluated |-> <<"left", "right">>, ok |-> TRUE,
        value |-> [t |-> "bool", v |-> IF op = "and" THEN is_truthy(left) /\ is_truthy(right)
                                       ELSE is_truthy(left) \/ is_truthy(right)]]

\* KInterpreter::visit(const BinaryOperationNode*) for and, or, the left
\* operand a value: the operands interpreted, in order, and the outcome
binaryOperation(op, left, right) ==
  IF op = "and" /\ ~is_truthy(left)
  THEN [evaluated |-> <<"left">>, ok |-> TRUE, value |-> [t |-> "bool", v |-> FALSE]]
  ELSE IF op = "or" /\ is_truthy(left)
  THEN [evaluated |-> <<"left">>, ok |-> TRUE, value |-> [t |-> "bool", v |-> TRUE]]
  ELSE IF right.t = "raise"
  THEN [evaluated |-> <<"left", "right">>, ok |-> FALSE, value |-> NoVal]
  ELSE [evaluated |-> <<"left", "right">>, ok |-> TRUE,
        value |-> [t |-> "bool", v |-> IF op = "and" THEN is_truthy(left) /\ is_truthy(right)
                                       ELSE is_truthy(left) \/ is_truthy(right)]]

\* the statement x = left op right, with visit(const AssignmentNode*)
visitBinaryOperation(name, op, left, right) ==
  /\ CanExec
  /\ LET r == binaryOperation(op, left, right) IN
     /\ ev' = [kind |-> "binop", op |-> op, left |-> left, right |-> right, evaluated |-> r.evaluated,
               ok |-> r.ok, value |-> r.value, before |-> frames[Top].variables]
     /\ IF r.ok
        THEN /\ Commit(callStack, [frames EXCEPT ![Top].variables[name] = r.value], StmtDone(ctl, r.value))
             /\ UNCHANGED <<status, err>>
        ELSE /\ getCallable(right.name) = "Undefined"
             /\ status' = "raising"
             /\ err' = [type |-> "FunctionUndefinedError", msg |-> right.name]
             /\ Commit(callStack, frames, ctl)
  /\ UNCHANGED <<functions, packages, packageStack, lambdas, lambdaTable, classes, objects>>

\* ---- programs of assignments of and, or over values and throwing calls ----
NextLogic ==
  \/ visitProgram
  \/ endProgram
  \/ unwindProgram
  \/ visitTry(TRUE, FALSE, FALSE, FALSE)
  \/ endTryBody
  \/ endCatchBody
  \/ unwindTryBody
  \/ \E n \in {"x", "v"}, op \in {"and", "or"},
        l \in {IntV(0), IntV(1), StrV(""), StrV("s"), ListV(<<>>), ListV(<<1>>)},
        r \in {IntV(0), IntV(1), ArgCall("g")} : visitBinaryOperation(n, op, l, r)

SpecLogic == Init /\ [][NextLogic]_vars

\* ---- range literals ----
\* a loop that stops before the end of the range and appends nothing after it
RECURSIVE rangeHalfOpen(_, _, _, _)
rangeHalfOpen(i, stop, step, elements) ==
  IF i # stop THEN rangeHalfOpen(i + step, stop, step, Append(elements, i))
  ELSE elements

\* visit(const RangeLiteralNode*): for (i = start; i != stop; i += step)
\* elements.emplace_back(i); then elements.emplace_back(stop)
RECURSIVE rangeLoop(_, _, _, _)
rangeLoop(i, stop, step, elements) ==
  IF i # stop THEN rangeLoop(i + step, stop, step, Append(elements, i))
  ELSE Append(elements, stop)

\* KInterpreter::visit(const RangeLiteralNode*) as the initializer of
\* name = start..stop, with visit(const AssignmentNode*)
visitRangeLiteral(name, startValue, stopValue) ==
  /\ CanExec
  /\ IF startValue.t # "int" \/ stopValue.t # "int"
     THEN /\ status' = "raising"
          /\ err' = [type |-> "RangeError", msg |-> "Range value must be an integer."]
          /\ ev' = [kind |-> "range", ok |-> FALSE, start |-> startValue, stop |-> stopValue]
          /\ Commit(callStack, frames, ctl)
     ELSE LET start == startValue.v
              stop == stopValue.v
              step == IF stop < start THEN 0 - 1 ELSE 1
              list == ListV(rangeLoop(start, stop, step, <<>>))
          IN /\ ev' = [kind |-> "range", ok |-> TRUE, start |-> startValue, stop |-> stopValue, value |-> list]
             /\ Commit(callStack, [frames EXCEPT ![Top].variables[name] = list], StmtDone(ctl, list))
             /\ UNCHANGED <<status, err>>
  /\ UNCHANGED <<functions, packages, packageStack, lambdas, lambdaTable, classes, objects>>

\* ---- programs of assignments of range literals ----
NextRange ==
  \/ visitProgram
  \/ endProgram
  \/ unwindProgram
  \/ \E a, b \in {IntV(i) : i \in (0 - MaxList)..MaxList} \cup {StrV("s")} : visitRangeLiteral("x", a, b)

SpecRange == Init /\ [][NextRange]_vars

\* ---- programs of assignments to global and to x, in the root frame and in a call, under try ----
NextGlobal ==
  \/ visitProgram
  \/ endProgram
  \/ unwindProgram
  \/ visitTry(TRUE, FALSE, FALSE, FALSE)
  \/ endTryBody
  \/ endCatchBody
  \/ unwindTryBody
  \/ Len(ctl) = 1 /\ visitFunctionDeclaration("f", <<>>)
  \/ visitFunctionCall("f", <<>>)
  \/ endCall
  \/ unwindCall
  \/ \E n \in {"global", "x"}, v \in {IntV(0), IntV(1), ListV(<<>>), ListV(<<1>>)} : visitAssignment(n, v)

SpecGlobal == Init /\ [][NextGlobal]_vars

\* ---- the reflector ----
\* the names in the registry methods where a statement runs: a class
\* declaration fills it with its methods and clears it before it ends
methods == {}

\* sort_list over a list of names: ascending
sort_list(names) == SelectSeq(<<"A", "B", "C", "f">>, LAMBDA n : n \in names)

\* KInterpreter::interpretReflectorBuiltin, RList without arguments, in a
\* program without packages: the list of function names is read from methods
interpretReflectorBuiltin ==
  [packages |-> <<>>,
   classes |-> sort_list({c \in ClassNames : classes[c].declared}),
   functions |-> sort_list(methods),
   stack |-> [i \in 1..Len(callStack) |->
                {n \in Names : frames[callStack[i]].variables[n] # Unbound}]]

\* visit(const FunctionCallNode*) of reflect.rlist(), with callBuiltinMethod
visitReflectorRList ==
  /\ CanExec
  /\ ev' = [kind |-> "rlist", value |-> interpretReflectorBuiltin,
            functions |-> {n \in DOMAIN functions : functions[n].declared},
            classes |-> {c \in ClassNames : classes[c].declared},
            stack |-> [i \in 1..Len(callStack) |-> frames[callStack[i]].variables]]
  /\ Commit(callStack, frames, StmtDone(ctl, HashV(<<"packages", "classes", "functions", "stack">>)))
  /\ UNCHANGED <<status, err, functions, packages, packageStack, lambdas, lambdaTable, classes, objects>>

\* ---- programs of declarations, calls, assignments and reflect.rlist() ----
NextReflect ==
  \/ visitProgram
  \/ endProgram
  \/ unwindProgram
  \/ Len(ctl) = 1 /\ visitFunctionDeclaration("f", <<>>)
  \/ \E c \in {"A", "B"} : Len(ctl) = 1 /\ visitClass(c, "", TRUE, TRUE)
  \/ visitFunctionCall("f", <<>>)
  \/ endCall
  \/ \E n \in {"x", "v"} : visitAssignment(n, IntV(1))
  \/ visitReflectorRList

SpecReflect == Init /\ [][NextReflect]_vars

\* ---- exit ----
\* an exit code that tells an integer from another value and no more
exitCodeFlag(exitValue) == IF exitValue.t = "int" THEN 0 ELSE 1

\* visit(const ExitNode*): exitCode is the exit value where it is an integer, 1 otherwise
exitCode(exitValue) == IF exitValue.t = "int" THEN exitValue.v ELSE 1

\* KInterpreter::visit(const ExitNode*): exit(exitCode) ends the process
\* where the node has no condition or the condition is truthy
visitExit(exitValue, hasCondition, condition) ==
  /\ CanExec
  /\ IF ~hasCondition \/ is_truthy(condition)
     THEN /\ status' = "exited"
          /\ ev' = [kind |-> "exit", value |-> exitValue, hasCondition |-> hasCondition, condition |-> condition,
                    terminated |-> TRUE, code |-> exitCode(exitValue)]
          /\ Commit(callStack, frames, ctl)
     ELSE /\ ev' = [kind |-> "exit", value |-> exitValue, hasCondition |-> hasCondition, condition |-> condition,
                    terminated |-> FALSE, code |-> 0]
          /\ Commit(callStack, frames, StmtDone(ctl, IntV(0)))
          /\ UNCHANGED status
  /\ UNCHANGED <<err, functions, packages, packageStack, lambdas, lambdaTable, classes, objects>>

\* ---- programs of assignments and exits, in the root frame, in a call and under try ----
NextExit ==
  \/ visitProgram
  \/ endProgram
  \/ visitTry(TRUE, FALSE, FALSE, FALSE)
  \/ endTryBody
  \/ Len(ctl) = 1 /\ visitFunctionDeclaration("f", <<>>)
  \/ visitFunctionCall("f", <<>>)
  \/ endCall
  \/ \E v \in {IntV(0), IntV(1)} : visitAssignment("x", v)
  \/ \E v \in {IntV(0), IntV(1), IntV(MaxVal), StrV("s"), ListV(<<>>)}, c \in {IntV(0), IntV(1), StrV("")} :
       visitExit(v, TRUE, c)
  \/ \E v \in {IntV(0), IntV(1), IntV(MaxVal), StrV("s"), ListV(<<>>)} : visitExit(v, FALSE, IntV(0))

SpecExit == Init /\ [][NextExit]_vars

\* ---- list built-ins taking a lambda: each, select, none, reduce ----
\* the statements of a lambda body: the identifier v, assignments to locals
BodyNodes == {"v", "e = v", "a = a + v"}

\* visit(const IdentifierNode*) of a name that is a local or nothing at all
identifierIn(variables, name) == IF variables[name] # Unbound THEN variables[name] ELSE IntV(0)

\* KInterpreter::interpret of one body statement in the top frame, whose
\* locals are variables: the value and the locals afterwards
interpretBody(stmt, variables) ==
  IF stmt = "v" THEN [value |-> identifierIn(variables, "v"), variables |-> variables]
  ELSE IF stmt = "e = v"
  THEN [value |-> identifierIn(variables, "v"), variables |-> [variables EXCEPT !["e"] = identifierIn(variables, "v")]]
  ELSE LET sum == IntV((identifierIn(variables, "a").v + identifierIn(variables, "v").v) % (MaxVal + 1))
       IN [value |-> sum, variables |-> [variables EXCEPT !["a"] = sum]]

\* the loops of lambdaEach, lambdaSelect and lambdaReduce from element i,
\* statement k on: the value variable is bound to the element, the index
\* variable (if any) to its position, and the body statements run in the
\* frame; resultList takes the element for every truthy statement value
RECURSIVE lambdaLoop(_, _, _, _, _, _, _, _, _)
lambdaLoop(decl, elements, valueVariable, indexVariable, i, k, variables, result, resultList) ==
  IF i > Len(elements) THEN [variables |-> variables, result |-> result, resultList |-> resultList]
  ELSE IF k > Len(decl)
  THEN lambdaLoop(decl, elements, valueVariable, indexVariable, i + 1, 1, variables, result, resultList)
  ELSE LET bound == IF k > 1 THEN variables
                    ELSE [n \in Names |-> IF n = valueVariable THEN IntV(elements[i])
                                          ELSE IF n = indexVariable THEN IntV(i - 1)
                                          ELSE variables[n]]
           r == interpretBody(decl[k], bound)
       IN lambdaLoop(decl, elements, valueVariable, indexVariable, i, k + 1, r.variables, r.value,
                     IF is_truthy(r.value) THEN Append(resultList, elements[i]) ELSE resultList)

\* the locals without the names given (frame->variables.erase)
eraseNames(variables, names) == [n \in Names |-> IF n \in names THEN Unbound ELSE variables[n]]

\* KInterpreter::lambdaEach
lambdaEach(lambda, list, variables) ==
  IF lambda.parameters = <<>> THEN [value |-> IntV(0), variables |-> variables]
  ELSE LET valueVariable == lambda.parameters[1][1]
           indexVariable == IF Len(lambda.parameters) >= 2 THEN lambda.parameters[2][1] ELSE ""
           w == lambdaLoop(lambda.node, list.v, valueVariable, indexVariable, 1, 1, variables, NoVal, <<>>)
       IN [value |-> w.result, variables |-> eraseNames(w.variables, {valueVariable, indexVariable})]

\* KInterpreter::lambdaSelect; without parameters the value variable is the empty name
lambdaSelect(lambda, list, variables) ==
  LET valueVariable == IF Len(lambda.parameters) >= 1 THEN lambda.parameters[1][1] ELSE ""
      indexVariable == IF Len(lambda.parameters) >= 2 THEN lambda.parameters[2][1] ELSE ""
      w == lambdaLoop(lambda.node, list.v, valueVariable, indexVariable, 1, 1, variables, NoVal, <<>>)
  IN [value |-> ListV(w.resultList), variables |-> eraseNames(w.variables, {valueVariable, indexVariable})]

\* KInterpreter::lambdaNone
lambdaNone(lambda, list, variables) ==
  LET selected == lambdaSelect(lambda, list, variables)
  IN [value |-> [t |-> "bool", v |-> selected.value.v = <<>>], variables |-> selected.variables]

\* KInterpreter::lambdaReduce
lambdaReduce(lambda, accumulator, list, variables) ==
  IF Len(lambda.parameters) # 2 THEN [value |-> accumulator, variables |-> variables]
  ELSE LET accumVariable == lambda.parameters[1][1]
           valueVariable == lambda.parameters[2][1]
           seeded == [n \in Names |-> IF n = valueVariable THEN IntV(0)
                                      ELSE IF n = accumVariable THEN accumulator ELSE variables[n]]
           w == lambdaLoop(lambda.node, list.v, valueVariable, "", 1, 1, seeded, NoVal, <<>>)
       IN [value |-> w.variables[accumVariable], variables |-> eraseNames(w.variables, {accumVariable, valueVariable})]

\* KInterpreter::visit(const MethodCallNode*) of name.op(lambda) and
\* name.reduce(0, lambda), the lambda a literal, with interpretListBuiltin
visitListLambda(name, op, parameters, body) ==
  /\ CanExec
  /\ \E tmpId \in TempIds :
       /\ lambdas[tmpId] = NoLambda
       /\ tmpId = "t2" => lambdas["t1"] # NoLambda
       /\ lambdas' = [lambdas EXCEPT ![tmpId] = KLambda(parameters, body)]
       /\ lambdaTable' = [lambdaTable EXCEPT ![tmpId] = tmpId]
  /\ LET object == identifier(name)
         lambda == KLambda(parameters, body)
         r == IF op = "each" THEN lambdaEach(lambda, object, frames[Top].variables)
              ELSE IF op = "select" THEN lambdaSelect(lambda, object, frames[Top].variables)
              ELSE IF op = "none" THEN lambdaNone(lambda, object, frames[Top].variables)
              ELSE lambdaReduce(lambda, IntV(0), object, frames[Top].variables)
     IN IF object.t # "list"
        THEN /\ status' = "raising"
             /\ err' = [type |-> "InvalidOperationError", msg |-> "Expected a list for specialized list builtin."]
             /\ ev' = [kind |-> "listLambda", ok |-> FALSE]
             /\ Commit(callStack, frames, ctl)
        ELSE /\ ev' = [kind |-> "listLambda", ok |-> TRUE, op |-> op, list |-> object.v, parameters |-> parameters,
                       body |-> body, value |-> r.value,
                       depthAtCall |-> Len(callStack), depthInBody |-> Len(callStack),
                       before |-> frames[Top].variables, after |-> r.variables]
             /\ Commit(callStack, [frames EXCEPT ![Top].variables = r.variables], StmtDone(ctl, r.value))
             /\ UNCHANGED <<status, err>>
  /\ UNCHANGED <<functions, packages, packageStack, classes, objects>>

\* ---- programs of assignments and list built-ins with lambda literals;
\* the first lambda literal of a program is that of each, select, none or reduce ----
NextListLambda ==
  \/ visitProgram
  \/ endProgram
  \/ unwindProgram
  \/ \E v \in {ListV(<<>>), ListV(<<2, 1>>), IntV(1)} : visitAssignment("x", v)
  \/ \E n \in {"a", "v"} : visitAssignment(n, IntV(1))
  \/ \E p \in {<<>>, <<<<"v", IntV(0)>>>>, <<<<"v", IntV(0)>>, <<"a", IntV(0)>>>>, <<<<"a", IntV(0)>>, <<"v", IntV(0)>>>>},
        op \in {"each", "select", "none", "reduce"},
        n \in 1..MaxLen : \E body \in [1..n -> BodyNodes] :
       /\ lambdas["t1"] = NoLambda
       /\ visitListLambda("x", op, p, body)
  \/ \E p \in {<<<<"v", IntV(0)>>>>, <<<<"v", IntV(0)>>, <<"a", IntV(0)>>>>} : visitListMap("x", p, <<"v">>)

SpecListLambda == Init /\ [][NextListLambda]_vars

\* ---- next and break in a for loop over a list ----
\* KInterpreter::listLoop at a next or break statement placed directly in the
\* body (type is "next" or "break", cond the truth of its condition, TRUE
\* where it has none): the statement is not interpreted; the Return flag of
\* the frame is looked at first and ends the pass; then next ends the pass
\* and break the loop where cond holds.  effect tells what has ended
listLoopNextBreak(type, cond) ==
  /\ CanExec
  /\ ctl[Len(ctl)].kind = "forlist"
  /\ LET e == ctl[Len(ctl)]
         flag == isFlagSet(frames, e.frame, "ReturnFlag")
         effect == IF flag THEN "pass" ELSE IF ~cond THEN "none" ELSE IF type = "next" THEN "pass" ELSE "loop"
     IN /\ ev' = [kind |-> "nextBreak", type |-> type, cond |-> cond, effect |-> effect,
                  element |-> e.i, elements |-> Len(e.data), returnFlag |-> flag]
        /\ IF effect = "none"
           THEN Commit(callStack, frames, [ctl EXCEPT ![Len(ctl)] = [e EXCEPT !.ran = TRUE]])
           ELSE IF effect = "pass" /\ e.i < Len(e.data)
           THEN Commit(callStack, [frames EXCEPT ![e.frame].variables["v"] = e.data[e.i + 1]],
                       [ctl EXCEPT ![Len(ctl)] = [e EXCEPT !.i = e.i + 1, !.ran = FALSE]])
           ELSE Commit(callStack, [frames EXCEPT ![e.frame].variables["v"] = Unbound], StmtDone(Pop(ctl), e.result))
  /\ UNCHANGED <<status, err, functions, packages, packageStack, lambdas, lambdaTable, classes, objects>>

\* ---- programs of for loops over lists with assignments, returns, next and break, at the root and in a call ----
NextLoop ==
  \/ visitProgram
  \/ endProgram
  \/ Len(ctl) = 1 /\ visitFunctionDeclaration("f", <<>>)
  \/ visitFunctionCall("f", <<>>)
  \/ endCall
  \/ unwindProgram
  \/ \E v \in {IntV(1), IntV(2)} : visitAssignment("x", v)
  \/ visitReturn(IntV(1), TRUE)
  \/ \E d \in {<<IntV(1)>>, <<IntV(1), IntV(2)>>} : visitForLoop("forlist", d)
  \/ endForBody
  \/ \E type \in {"next", "break"}, cond \in BOOLEAN : listLoopNextBreak(type, cond)

SpecLoop == Init /\ [][NextLoop]_vars

\* ---- packages ----
\* KInterpreter::visit(const PackageNode*): the package is registered, its
\* body is not run
visitPackage(name) ==
  /\ CanExec
  /\ packages' = packages \cup {name}
  /\ Commit(callStack, frames, StmtDone(ctl, IntV(0)))
  /\ ev' = StmtEv
  /\ UNCHANGED <<status, err, functions, lambdas, lambdaTable, classes, objects, packageStack>>

\* visit(const ImportNode*) and visit(const ExportNode*) with
\* KInterpreter::importPackage up to the loop over the package body; the name
\* is a string that names no script file
visitImport(packageName) ==
  /\ CanNest
  /\ Len(packageStack) < MaxImports
  /\ IF packageName \notin packages
     THEN /\ status' = "raising"
          /\ err' = [type |-> "PackageUndefinedError", msg |-> packageName]
          /\ Commit(callStack, frames, ctl)
          /\ ev' = StmtEv
          /\ UNCHANGED packageStack
     ELSE /\ packageStack' = Append(packageStack, packageName)
          /\ Commit(callStack, frames,
                    Append(ctl, [kind |-> "import", frame |-> Top, ran |-> FALSE, result |-> IntV(0),
                                 depthBefore |-> Len(packageStack)]))
          /\ ev' = StmtEv
          /\ UNCHANGED <<status, err>>
  /\ UNCHANGED <<functions, lambdas, lambdaTable, classes, objects, packages>>

\* importPackage after the last statement of the package body: packageStack.pop()
endImport ==
  /\ Running
  /\ ctl[Len(ctl)].kind = "import"
  /\ packageStack' = Pop(packageStack)
  /\ Commit(callStack, frames, StmtDone(Pop(ctl), IntV(0)))
  /\ ev' = [kind |-> "imported", depthBefore |-> ctl[Len(ctl)].depthBefore, depthAfter |-> Len(packageStack')]
  /\ UNCHANGED <<status, err, functions, lambdas, lambdaTable, classes, objects, packages>>

\* an error thrown by a statement of the package body leaves importPackage
\* through its loop: nothing is popped
unwindImport ==
  /\ Raising
  /\ ctl[Len(ctl)].kind = "import"
  /\ Commit(callStack, frames, Pop(ctl))
  /\ ev' = [kind |-> "imported", depthBefore |-> ctl[Len(ctl)].depthBefore, depthAfter |-> Len(packageStack)]
  /\ UNCHANGED <<status, err, functions, lambdas, lambdaTable, classes, objects, packages, packageStack>>

\* ---- programs of package declarations, imports, function declarations, throws and try/catch ----
NextPackage ==
  \/ visitProgram
  \/ endProgram
  \/ unwindProgram
  \/ \E p \in PackageNames : visitPackage(p)
  \/ \E p \in PackageNames : visitImport(p)
  \/ endImport
  \/ unwindImport
  \/ \E n \in FunctionNames : visitFunctionDeclaration(n, <<>>)
  \/ visitThrow("string", TRUE)
  \/ visitTry(TRUE, FALSE, FALSE, FALSE)
  \/ endTryBody
  \/ unwindTryBody
  \/ endCatchBody
  \/ \E v \in {IntV(1), IntV(2)} : visitAssignment("x", v)

SpecPackage == Init /\ [][NextPackage]_vars

\* ---- programs of class declarations at top level and in imported packages ----
NextClassDecl ==
  \/ visitProgram
  \/ endProgram
  \/ unwindProgram
  \/ \E p \in PackageNames : visitPackage(p)
  \/ \E p \in PackageNames : visitImport(p)
  \/ endImport
  \/ unwindImport
  \/ \E n \in {"A", "B"}, g \in BOOLEAN, c \in BOOLEAN : visitClass(n, BaseOf(n), g, c)
  \/ \E n \in FunctionNames : visitFunctionDeclaration(n, <<>>)

SpecClassDecl == Init /\ [][NextClassDecl]_vars

\* ---- reading slices with integers of 64 bits ----
\* the k_int hi * 2^32 + lo, lo inside the range of int: the field v holds lo,
\* which is what the conversions int start = std::get<k_int>(...) of
\* interpretListSlice keep of it
Int64(hi, lo) == [t |-> "int", v |-> lo, hi |-> hi]

\* the slices the programs read: small bounds and steps, and the step 2^32
ReadSlices ==
  {<<IntV(a), IntV(b), IntV(c)>> : a \in (0 - 3)..3, b \in (0 - 3)..3, c \in (0 - 2)..2}
    \cup {<<IntV(0), IntV(2), Int64(1, 0)>>, <<IntV(0), StrV("a"), IntV(1)>>}

\* ---- programs of list assignments and slice reads ----
NextSliceRead ==
  \/ visitProgram
  \/ endProgram
  \/ unwindProgram
  \/ \E v \in ListLits : visitAssignment("x", v)
  \/ \E a \in ReadSlices : visitSlice(a[1], a[2], a[3])

SpecSliceRead == Init /\ [][NextSliceRead]_vars

\* ---- properties ----

\* C1: when a non-script program ends without an uncaught failure, the call
\* stack holds exactly one frame, the root frame
C1_OneFrameAtEnd == status = "done" => Len(callStack) = 1

\* C2: when a call fails at any stage, the stack that the failure meets at the
\* call site has the depth and the top frame it had immediately before the call
C2_FailedCallRestoresStack ==
  ev.kind = "callFailed" => ev.depthAfter = ev.depthBefore /\ ev.topAfter = ev.topBefore

\* C3: after a return has taken effect in a function body no later statement of
\* that body runs and the call yields the value of that return; a body without
\* return yields the value of its last statement
C3_ReturnEndsBody ==
  /\ ev.kind = "stmt" => ~ev.afterReturn
  /\ ev.kind = "callEnd" => ev.result = (IF ev.firstRet # NoVal THEN ev.firstRet ELSE ev.last)

\* C4: once a return has taken effect in the body of a loop (for over a list,
\* for over a hash, while, repeat), no further statement of that loop's body
\* runs, in this iteration or a later one
C4_ReturnEndsLoop == ev.kind = "stmt" => ~ev.loopAfterReturn

\* C5: when the program ends without throwing, the Return flag is not set on
\* the root frame
C5_RootReturnFlagClear ==
  status = "done" /\ Len(callStack) >= 1 => ~isFlagSet(frames, callStack[1], "ReturnFlag")

\* C6: a try statement with a finally body has run that body exactly once
\* whenever it is left: normally, after a caught failure, or by a failure of
\* its catch body
C6_FinallyExactlyOnce == ev.kind = "tryExit" /\ ev.hasFinally => ev.fin = 1

C8_SliceReplaces ==
  ev.kind = "slice" /\ ev.step = 1 /\ 0 <= ev.start /\ ev.start <= ev.stop /\ ev.stop <= Len(ev.before)
    => /\ ev.after = SubSeq(ev.before, 1, ev.start) \o ev.rhs \o SubSeq(ev.before, ev.stop + 1, Len(ev.before))
       /\ Len(ev.after) = Len(ev.before) - (ev.stop - ev.start) + Len(ev.rhs)

\* C9: a method call on an object finds the method in the nearest class of the
\* base-class chain that declares it, at any depth, and fails only when no
\* class of the chain declares it
C9_MethodResolvedAlongChain ==
  ev.kind = "methodCall" =>
    LET declares(c) == c # "" /\ classes[c].methods[ev.methodName].st = "fn"
        base(c) == IF c = "" THEN "" ELSE classes[c].baseClass
        c1 == ev.className
        c2 == base(c1)
        c3 == base(c2)
        nearest == IF declares(c1) THEN c1 ELSE IF declares(c2) THEN c2 ELSE IF declares(c3) THEN c3 ELSE ""
    IN (ev.resolved <=> nearest # "") /\ (ev.resolved => ev.supplier = nearest)

\* C10: new on a class reference yields a newly allocated object whose class
\* name is that class, with or without a declared constructor, and the value
\* of the call is that object
C10_NewYieldsObjectOfClass ==
  ev.kind = "new" => ev.fresh /\ ev.className = ev.class /\ ev.result = ObjV(ev.obj)

\* C11: every frame on the call stack whose object context is not empty has
\* the InObject flag set
C11_ObjectContextImpliesInObject ==
  \A i \in 1..Len(callStack) :
    frames[callStack[i]].objectContext # NoObject => isFlagSet(frames, callStack[i], "InObject")

\* C12: the frame of a call of a top-level function starts as a copy of the
\* caller's locals overridden by the parameter bindings; the frame of a method
\* invocation (object method, static method, constructor) starts with the
\* parameter bindings only and with the caller's object context
C12_MethodFrameStartsEmpty ==
  status = "running" /\ ctl # <<>> /\ ctl[Len(ctl)].kind \in CallKinds /\ ~ctl[Len(ctl)].ran /\ Len(callStack) >= 2
    => LET frame == frames[Top]
           caller == frames[callStack[Len(callStack) - 1]]
       IN IF ctl[Len(ctl)].kind = "call"
          THEN \A n \in Names \ {"a"} : frame.variables[n] = caller.variables[n]
          ELSE /\ \A n \in Names \ {"global"} : frame.variables[n] = Unbound
               /\ frame.objectContext = caller.objectContext

\* C13: when a frame is dropped, the return-value slot of the frame below it
\* receives the dropped frame's return value, every local of that frame whose
\* name is also bound in the dropped frame takes the dropped frame's value,
\* every other local keeps its value, and no name is added or removed
C13_DropFrameCopiesBack ==
  [][Len(callStack) >= 2 /\ callStack' = SubSeq(callStack, 1, Len(callStack) - 1)
       => LET dropped == frames[Top]
              caller == frames[callStack[Len(callStack) - 1]]
              after == frames'[callStack[Len(callStack) - 1]]
          IN /\ after.returnValue = dropped.returnValue
             /\ \A n \in Names :
                  after.variables[n] =
                    IF dropped.variables[n] # Unbound /\ caller.variables[n] # Unbound
                    THEN dropped.variables[n] ELSE caller.variables[n]]_vars

\* the root frame holds x = 2, a value only function bodies assign, after a call returned
C13_Witness ==
  /\ ev.kind = "callEnd" /\ status = "running" /\ callStack = <<1>>
  /\ frames[1].variables["x"] = IntV(2) /\ frames[1].variables["a"] = Unbound
  /\ frames[1].returnValue = IntV(2)

C14_HashLoopInsertionOrder ==
  \A j \in 1..Len(ctl) :
    ctl[j].kind = "forhash" =>
      LET e == ctl[j]
          hist == frames[e.frame].variables["m"].hist
          First(k) == CHOOSE i \in 1..Len(hist) : hist[i] = k /\ \A i2 \in 1..(i - 1) : hist[i2] # k
      IN /\ {e.data[p].v : p \in 1..Len(e.data)} = {hist[i] : i \in 1..Len(hist)}
         /\ \A p, q \in 1..Len(e.data) : p < q => First(e.data[p].v) < First(e.data[q].v)
         /\ frames[e.frame].variables["v"] = e.data[e.i]

\* the second pass of a loop over a hash built by adding b, a and b again
C14_Witness ==
  /\ Len(ctl) = 2
  /\ ctl[2].kind = "forhash"
  /\ ctl[2].i = 2
  /\ frames[ctl[2].frame].variables["m"].hist = <<"b", "a", "b">>
  /\ frames[ctl[2].frame].variables["v"] = StrV("a")

\* C15: an index assignment target[i] op= v on a list of length len writes at
\* len + i when -len <= i < 0 and at i when 0 <= i < len; any other index fails
\* with IndexError and leaves the list unchanged
C15_ListIndexAssignWraps ==
  (ev.kind = "index" /\ ~ev.nested /\ ev.before.t = "list" /\ ev.key.t = "int") =>
    LET len == Len(ev.before.v)
        i == ev.key.v
        pos == IF i < 0 THEN len + i ELSE i
    IN IF 0 - len <= i /\ i < len
       THEN /\ status = "running"
            /\ ev.after = ListV([ev.before.v EXCEPT ![pos + 1] = IF ev.op = "=" THEN ev.new.v ELSE @ + ev.new.v])
       ELSE /\ status = "raising"
            /\ err.type = "IndexError"
            /\ ev.after = ev.before

\* C16: an index assignment to a hash with a string key creates or replaces the
\* entry when the operator is =; a compound operator on a key the hash has not
\* fails with HashKeyError and leaves the hash unchanged, and on a key it has
\* replaces the value; the same at the nested level, for the identifier and the
\* literal index legs
C16_HashIndexAssign ==
  (ev.kind = "index" /\ ev.before.t = "hash" /\ ev.key.t = "str") =>
    LET k == ev.key.v
        present == ev.before.kvp[k] # NoVal
    IN IF ev.op = "=" \/ present
       THEN /\ status = "running"
            /\ ev.after.kvp = [ev.before.kvp EXCEPT ![k] = IF ev.op = "=" THEN ev.new ELSE IntV(@.v + ev.new.v)]
            /\ ev.after.v = IF present THEN ev.before.v ELSE Append(ev.before.v, k)
       ELSE /\ status = "raising"
            /\ err.type = "HashKeyError"
            /\ ev.after = ev.before

\* C17: reading a list of length len at the index -k gives the element at
\* len - k when 1 <= k <= len and fails with RangeError when k > len; an index
\* i >= len fails with RangeError too
C17_ListReadNegativeIndex ==
  (ev.kind = "read" /\ ev.object.t = "list" /\ ev.key.t = "int") =>
    LET len == Len(ev.object.v)
        i == ev.key.v
    IN IF 0 - len <= i /\ i < len
       THEN /\ status = "running"
            /\ ev.value = IntV(ev.object.v[(IF i < 0 THEN len + i ELSE i) + 1])
       ELSE /\ status = "raising"
            /\ err.type = "RangeError"

\* C18: a slice with step 0 fails with IndexError, read from a list or used as
\* the target of an assignment, and the target list is left unchanged
C18_StepZeroFails ==
  /\ (ev.kind = "sliceRead" /\ ev.object.t = "list" /\ ev.step = IntV(0)) =>
       status = "raising" /\ err.type = "IndexError"
  /\ (ev.kind = "slice" /\ ev.step = 0) =>
       status = "raising" /\ err.type = "IndexError" /\ ev.after = ev.before

\* C19: a compound assignment to a name that is bound neither in the locals of
\* the top frame nor, in object context, in the instance variables of the
\* object fails with VariableUndefinedError and creates no binding; so for a
\* name beginning with @ in object context
C19_CompoundOnUnboundFails ==
  (ev.kind = "compound" /\ ~ev.bound) =>
    /\ status = "raising"
    /\ err.type = "VariableUndefinedError"
    /\ ev.name \in Names => frames[Top].variables[ev.name] = Unbound
    /\ (ev.inObject /\ ev.name \in InstNames) => objects[ev.obj].instanceVariables[ev.name] = Unbound

\* C21: a called name is resolved in a fixed order: the function registry, the
\* lambda registry, the built-in names, the lambda indirection table, the
\* methods of the class of the object context of the top frame; the first that
\* has the name decides the kind of callable, and a name none of them has
\* fails with FunctionUndefinedError
C21_ResolutionOrder ==
  (ev.kind = "stmt" /\ "callable" \in DOMAIN ev) =>
    LET kinds == <<"Function", "Lambda", "Builtin", "Lambda", "Method">>
        S == {i \in 1..5 : ev.found[i]}
    IN IF S = {}
       THEN ev.callable = "Undefined" /\ status = "raising" /\ err.type = "FunctionUndefinedError"
       ELSE ev.callable = kinds[CHOOSE i \in S : \A j \in S : i <= j]

\* a call of f, which both the function registry and the lambda registry have
C21_Witness ==
  /\ ev.kind = "stmt" /\ "callable" \in DOMAIN ev
  /\ ev.found[1] /\ ev.found[2]
  /\ ev.callable = "Function"

\* C22: map with a lambda of at least one parameter over a list of n elements
\* returns a list of exactly n elements, the i-th the value of the final
\* statement of the lambda body with the parameter bound to the i-th element
C22_MapFinalStatement ==
  (ev.kind = "map" /\ ev.ok /\ Len(ev.parameters) >= 1) =>
    /\ ev.value.t = "list"
    /\ Len(ev.value.v) = Len(ev.list)
    /\ \A i \in 1..Len(ev.list) :
         ev.value.v[i] = interpretStmt(ev.body[Len(ev.body)],
                                       [n \in Names |-> IF n = ev.parameters[1][1] THEN IntV(ev.list[i]) ELSE Unbound])

\* C23: the subexpressions of a statement are evaluated from left to right,
\* the index of an index assignment before its right-hand side, the left side
\* of an assignment before its initializer, the arguments of a call in
\* positional order: where subexpressions throw, the statement ends in the
\* error of the leftmost one that throws
C23_LeftToRight ==
  /\ ev.kind = "order" =>
       \A j \in 1..Len(ev.nodes) : ev.nodes[j].t = "raise" => ev.thrower <= j
  /\ (ev.kind = "callFailed" /\ "arguments" \in DOMAIN ev /\ status = "raising"
        /\ err.type # "ParameterCountMismatchError") =>
       \E i \in 1..Len(ev.arguments) :
         /\ ev.arguments[i].t = "raise"
         /\ err.msg = ev.arguments[i].name
         /\ \A j \in 1..(i - 1) : ev.arguments[j].t # "raise"

\* C24: the right operand of and is evaluated exactly when the left one is
\* truthy, that of or exactly when the left one is falsy; where it is skipped
\* the result is false for and, true for or, and nothing the right operand
\* would do happens: no error of it is raised, the frame gets the result only
C24_ShortCircuit ==
  ev.kind = "binop" =>
    LET rightEvaluated == \E i \in 1..Len(ev.evaluated) : ev.evaluated[i] = "right" IN
    /\ ev.op = "and" => (rightEvaluated <=> is_truthy(ev.left))
    /\ ev.op = "or" => (rightEvaluated <=> ~is_truthy(ev.left))
    /\ ~rightEvaluated =>
         /\ ev.ok /\ status # "raising"
         /\ ev.value = [t |-> "bool", v |-> ev.op = "or"]

\* C24: an and with a falsy left operand and a right operand that would throw
C24_Witness ==
  /\ ev.kind = "binop" /\ ev.op = "and"
  /\ ~is_truthy(ev.left) /\ ev.right.t = "raise"
  /\ ev.ok /\ status = "running"

\* C25: the range literal a..b is the list of exactly |b - a| + 1 integers
\* that starts at a, ends at b and steps by +1 where b >= a, by -1 where b < a
C25_RangeLiteral ==
  (ev.kind = "range" /\ ev.ok) =>
    LET a == ev.start.v
        b == ev.stop.v
        l == ev.value.v
    IN /\ Len(l) = (IF b >= a THEN b - a ELSE a - b) + 1
       /\ l[1] = a
       /\ l[Len(l)] = b
       /\ \A i \in 1..(Len(l) - 1) : l[i + 1] = l[i] + (IF b >= a THEN 1 ELSE 0 - 1)

\* C25: a descending range of more than two elements has been built
C25_Witness ==
  /\ ev.kind = "range" /\ ev.ok
  /\ ev.stop.v < ev.start.v - 1
  /\ callStack # <<>>
  /\ frames[Top].variables["x"] = ev.value

C27_RListContents ==
  ev.kind = "rlist" =>
    /\ DOMAIN ev.value = {"packages", "classes", "functions", "stack"}
    /\ ev.value.functions = sort_list(ev.functions)
    /\ ev.value.classes = sort_list(ev.classes)
    /\ ev.value.packages = <<>>
    /\ Len(ev.value.stack) = Len(ev.stack)
    /\ \A i \in 1..Len(ev.stack) :
         ev.value.stack[i] = {n \in Names : ev.stack[i][n] # Unbound}

C29_CallerContextRestored ==
  (ev.kind = "callEnd" /\ "handler" \in DOMAIN ev /\ ev.handler \in {"callObjectMethod", "callObjectBaseMethod"}) =>
    /\ ev.inObjectAfter <=> ev.inObjectBefore
    /\ ev.inObjectBefore => ev.contextAfter = ev.contextBefore

\* C30: when a frame is dropped the Return flag is propagated, not created:
\* the frame below has the flag afterwards only if it had it before, or if it
\* has SubFrame and the dropped frame had the flag; a callee that ends without
\* return leaves the caller's Return flag unset
C30_ReturnFlagPropagated ==
  [][Len(callStack) >= 2 /\ callStack' = SubSeq(callStack, 1, Len(callStack) - 1)
       => LET dropped == frames[Top]
              caller == frames[callStack[Len(callStack) - 1]]
              after == frames'[callStack[Len(callStack) - 1]]
          IN "ReturnFlag" \in after.flags =>
               \/ "ReturnFlag" \in caller.flags
               \/ "SubFrame" \in caller.flags /\ "ReturnFlag" \in dropped.flags]_vars

\* C30: a call whose body ran a statement and ended without return is over
\* and the root frame, its caller, has no Return flag
C30_Witness ==
  /\ ev.kind = "callEnd" /\ ev.firstRet = NoVal /\ status = "running" /\ callStack = <<1>>
  /\ "ReturnFlag" \notin frames[1].flags
  /\ frames[1].variables["x"] = IntV(2)

\* C31: after the assignment n = v of a lambda value the lambda registry maps
\* n to that lambda, a live lambda with its parameters and body, and the
\* assignment has created no local named n
C31_LambdaAssignment ==
  ev.kind = "lambdaAssign" =>
    /\ ev.after.st = "lambda"
    /\ ev.after = ev.value
    /\ ev.localAfter = ev.localBefore

\* C32: each, map, select, none and reduce push no frame: the body runs at the
\* depth of the call, in the caller's top frame, whose locals it reads and
\* writes, and when the built-in is over none of the lambda's parameter names
\* is bound in that frame
C32_ListLambdaInCallerFrame ==
  (ev.kind \in {"listLambda", "map"} /\ ev.ok) =>
    /\ ev.depthInBody = ev.depthAtCall
    /\ \A i \in 1..Len(ev.parameters) : ev.after[ev.parameters[i][1]] = Unbound
    /\ (ev.op = "each" /\ ev.list # <<>> /\ Len(ev.parameters) >= 1 /\ ev.parameters[1][1] = "v"
          /\ \E k \in 1..Len(ev.body) : ev.body[k] = "e = v")
         => ev.after["e"] = IntV(ev.list[Len(ev.list)])

\* C33: in a for loop over a list a next whose condition is absent or truthy
\* ends the current pass over the body only, a break whose condition is absent
\* or truthy ends the loop, and a next or break whose condition is falsy has
\* no effect
C33_NextAndBreak ==
  ev.kind = "nextBreak" =>
    /\ (ev.cond /\ ev.type = "next") => ev.effect = "pass"
    /\ (ev.cond /\ ev.type = "break") => ev.effect = "loop"
    /\ ~ev.cond => ev.effect = "none"

\* C34: a function declared while a package is being imported is registered
\* under packageName::name and not under its bare name, a function declared
\* while no import is running is registered under its bare name, and the
\* package-name stack has after an import the depth it had before it
C34_PackagePrefix ==
  [][
      /\ \A k \in FunctionKeys :
          (functions'[k] # functions[k]) =>
            (/\ functions'[k].declared
             /\ (\E i \in 1..Len(ctl) : ctl[i].kind = "import") <=> (k \notin FunctionNames))
      /\ (ctl # <<>> /\ ctl[Len(ctl)].kind = "import" /\ Len(ctl') < Len(ctl)) =>
            (Len(packageStack') = ctl[Len(ctl)].depthBefore)]_vars

\* C35: a class declaration whose base class is not declared fails and
\* registers nothing; a successful one registers every declared method as a
\* function in the method map of the class and nothing in the registry of
\* top-level functions
C35_ClassDeclaration ==
  [][
      /\ (status' = "raising" /\ err'.type = "ClassUndefinedError") => (classes' = classes /\ functions' = functions)
      /\ \A c \in ClassNames :
           (classes'[c] # classes[c]) =>
             (/\ classes'[c].declared
              /\ \A m \in MethodNames : classes'[c].methods[m].st \in {"fn", "absent"}
              /\ functions' = functions)]_vars

\* C36: reading a slice of a list with integer start, stop and step, the step
\* not zero, ends with a list and no error; the list holds elements of the
\* sliced list only, and with start 0, stop the length and step -1 it is the
\* sliced list reversed
C36_ReadSliceTotal ==
  (/\ ev.kind = "sliceRead"
   /\ ev.object.t = "list"
   /\ ev.start.t = "int" /\ ev.stop.t = "int" /\ ev.step.t = "int"
   /\ ~(ev.step.v = 0 /\ "hi" \notin DOMAIN ev.step)) =>
    /\ ev.outcome = "value"
    /\ ev.value.t = "list"
    /\ \A k \in 1..Len(ev.value.v) : \E j \in 1..Len(ev.object.v) : ev.value.v[k] = ev.object.v[j]
    /\ (ev.start = IntV(0) /\ ev.stop = IntV(Len(ev.object.v)) /\ ev.step = IntV(0 - 1)) =>
         ev.value.v = [k \in 1..Len(ev.object.v) |-> ev.object.v[Len(ev.object.v) + 1 - k]]

\* C37: a slice assignment with a step other than 1 leaves the length of the
\* target list as it was and changes only positions start + k * step that lie
\* in the normalized slice range (from start up to but not including stop for
\* a positive step, from start down to but not including stop for a negative
\* one), the k-th of them to the k-th element of the right-hand side
C37_SteppedSliceAssignment ==
  (ev.kind = "slice" /\ ev.step # 1) =>
    LET listSize == Len(ev.before)
        start1 == IF ev.start < 0 THEN ev.start + listSize ELSE ev.start
        stop1 == IF ev.stop < 0 THEN ev.stop + listSize ELSE ev.stop
        start == IF start1 < 0 THEN 0 ELSE start1
        stop2 == IF stop1 > listSize THEN listSize ELSE stop1
        stop == IF ev.step < 0 /\ stop2 = listSize THEN 0 - 1 ELSE stop2
        inRange(i) == IF ev.step > 0 THEN i >= start /\ i < stop ELSE i <= start /\ i > stop
    IN /\ ev.defined
       /\ Len(ev.after) = listSize
       /\ \A p \in 1..listSize :
            ev.after[p] # ev.before[p] =>
              \E k \in 0..(Len(ev.rhs) - 1) :
                p - 1 = start + k * ev.step /\ inRange(p - 1) /\ ev.after[p] = ev.rhs[k + 1]

\* C38: every key of the lambda registry maps to a live lambda, and every
\* value of the lambda indirection table is a key of the registry that maps
\* to a live lambda
C38_LambdaRegistryLive ==
  /\ \A k \in LambdaKeys : lambdas[k] # NoLambda => lambdas[k].st = "lambda"
  /\ \A k \in TableKeys : lambdaTable[k] # "" =>
       lambdaTable[k] \in LambdaKeys /\ lambdas[lambdaTable[k]].st = "lambda"

\* C39: an error raised while the body of a try without catch body runs is
\* absorbed by that try: the error is cleared and no handler around the try
\* sees it, no further statement of the try body runs, the finally body is
\* entered where there is one, and otherwise execution goes on after the try
C39_TryWithoutCatchAbsorbs ==
  [][(/\ status = "raising"
      /\ ctl # <<>>
      /\ ctl[Len(ctl)].kind = "try"
      /\ ~ctl[Len(ctl)].hasCatch) =>
       /\ status' = "running"
       /\ err' = NoErr
       /\ IF ctl[Len(ctl)].hasFinally
          THEN /\ Len(ctl') = Len(ctl)
               /\ ctl'[Len(ctl)].kind = "finally"
               /\ SubSeq(ctl', 1, Len(ctl) - 1) = SubSeq(ctl, 1, Len(ctl) - 1)
          ELSE ctl' = StmtDone(Pop(ctl), IntV(0))]_vars

C39_Witness ==
  /\ ev.kind = "tryExit" /\ ev.how = "absorbed" /\ ~ev.hasFinally
  /\ status = "running"
  /\ err = NoErr
  /\ Len(ctl) >= 2
====
